---- MODULE Spec2Model ----
(***************************************************************************)
(* A model of the gping / pinger repository: the process-reader worker of  *)
(* pinger (Pinger::start), the one-shot command loop and the TCP-connect   *)
(* loop, the raw ICMP echo engine with its in-flight table, and the ICMP   *)
(* echo codec.  Each part has its own specification; the variables of the  *)
(* other parts stay at their initial values.                               *)
(***************************************************************************)
EXTENDS Integers, Sequences, FiniteSets, TLC

(***************************************************************************)
(* Bounds of the model (not program constants).                            *)
(***************************************************************************)
\* how many stdout items (lines or read errors) the child writes at most
MaxLines == 3
\* how many probe attempts a looping worker makes at most
MaxAttempts == 4
\* how many probes the raw ICMP worker sends at most
MaxProbes == 17
\* how many replies may arrive while an older probe is still unanswered
MaxOvertakes == 1
\* how many Pongs the caller of the raw ICMP engine takes at most
MaxRecv == 1
\* a reply arrives only for one of the ReorderWindow oldest probes in flight
ReorderWindow == 2
\* how many probes the raw ICMP worker sends at most while its Pinger is
\* being dropped
MaxDropProbes == 2
\* longest payload of an echo request, in bytes
MaxPayload == 2
\* longest datagram handed to the decoders, in bytes
MaxDatagram == 28

(***************************************************************************)
(* Part 1.  The process-based pinger worker: pinger/src/lib.rs             *)
(***************************************************************************)
VARIABLES
    build,          \* "debug" or "release": decides what integer overflow does
    worker_pc,      \* position of the worker closure of Pinger::start
    child_state,    \* "running" or "exited"
    child_status,   \* exit status of the child (meaningful once exited)
    child_stderr,   \* the bytes the child wrote to stderr: "utf8" or "invalid"
    stdout_pipe,    \* items the child wrote and the BufReader has not yet read
    nwritten,       \* number of items the child has written to stdout
    lines_read,     \* the items the reader loop has taken, in order (history)
    chan,           \* the queue of the mpsc::channel (tx -> rx)
    rx_alive,       \* FALSE once the Receiver has been dropped
    received,       \* what the caller has taken from rx, in order (history)
    send_failed     \* TRUE once a tx.send of the worker has returned Err

procVars == <<build, worker_pc, child_state, child_status, child_stderr,
              stdout_pipe, nwritten, lines_read, chan, rx_alive, received,
              send_failed>>

(***************************************************************************)
(* Part 2.  The looping workers: the TCP-connect loop (pinger/src/tcp.rs), *)
(* the one-shot command loop (pinger/src/linux.rs), the Windows ICMP loop  *)
(* (pinger/src/windows.rs) and the fake loop (pinger/src/fake.rs).         *)
(***************************************************************************)
VARIABLES
    strategy,       \* which worker runs: "tcp", "cmd", "win" or "fake"
    allow_rst,      \* options.allow_rst of the TCP pinger
    loop_pc,        \* "probe", "sleep", "done" or "panicked"
    loop_chan,      \* the queue of the worker's mpsc::channel
    loop_rx_alive,  \* FALSE once the Receiver has been dropped
    last_send,      \* outcome of the latest attempt's tx.send: "none", "ok", "err"
    attempts,       \* number of probe attempts made so far
    tcp_outcome,    \* what the latest TCP attempt met: how the address
                    \* resolved and how the connect ended
    loop_thread,    \* the worker thread: "spawned", "running", "panicked", "exited"
    exit_notified,  \* the oneshot exit message has been sent
    ping_thread     \* Drop for the Pinger handle (src/lib.rs): "none" (no handle),
                    \* "held", "notified", "joined" or "panicked"

loopVars == <<strategy, allow_rst, loop_pc, loop_chan, loop_rx_alive,
              last_send, attempts, tcp_outcome, loop_thread, exit_notified,
              ping_thread>>

\* what the worker loops themselves never change
handleVars == <<loop_thread, exit_notified, ping_thread>>

(***************************************************************************)
(* Part 3.  The raw ICMP echo engine: src/linux.rs                         *)
(***************************************************************************)
VARIABLES
    run,              \* the AtomicBool shared by the Pinger and its worker
    raw_pc,           \* position of the worker closure of Pinger::new
    nsent,            \* number of probes sent; also the worker's clock
    in_flight_table,  \* HashMap<Token, Instant>: token -> send instant
    raw_chan,         \* the queue of mpsc::sync_channel(16): one entry per
                      \* queued Duration, naming the probe it measures
    last_elapsed,     \* send_time.elapsed() of the receive phase just run
                      \* (-1: it matched no probe)
    overtakes,        \* number of replies that arrived before an older one
    nrecv,            \* number of Pongs the caller has taken from the channel
    drop_pc,          \* position of Drop for Pinger: "held" until it starts
    pipe_written,     \* TRUE once "wakeup" was written to the pipe
    cap_effective,    \* CAP_NET_RAW is in the effective set
    probe_limit       \* the number of probes this run of the model sends at most

rawVars == <<run, raw_pc, nsent, in_flight_table, raw_chan, last_elapsed,
             overtakes, nrecv, drop_pc, pipe_written, cap_effective,
             probe_limit>>

(***************************************************************************)
(* State of the ICMP codec (src/icmp.rs)                                   *)
(***************************************************************************)
VARIABLES
    codec_pc,     \* "idle", "new", "encoded", "reply", "decoded"
    proto,        \* the Proto the request is encoded and the reply decoded for
    request,      \* the EchoRequest: ident, seq_cnt, payload
    buffer,       \* the byte buffer, a sequence of 0..255
    reply,        \* what EchoReply::decode returned
    packet        \* what IpV4Packet::decode returned

codecVars == <<codec_pc, proto, request, buffer, reply, packet>>

(***************************************************************************)
(* State of the output parsers (pinger/src)                                *)
(***************************************************************************)
VARIABLES
    parse_pc,     \* "idle", "ready", "parsed"
    parser_kind,  \* "linux", "bsd", "macos", "windows"
    input,        \* the text handed to the parser: a sequence of lines
    parsed        \* what the parser returned

parserVars == <<parse_pc, parser_kind, input, parsed>>

(***************************************************************************)
(* Detection of the Linux ping in use: pinger/src/linux.rs                 *)
(***************************************************************************)
VARIABLES
    detect_pc,    \* "idle", "captured" (`ping -V` has run) or "detected"
    ping_stdout,  \* output.stdout of `ping -V`: a sequence of lines
    ping_stderr,  \* output.stderr of `ping -V`
    detected      \* what detect_linux_ping returned

detectVars == <<detect_pc, ping_stdout, ping_stderr, detected>>

(***************************************************************************)
(* Calls of the functions that take a target apart: Target::new_any,       *)
(* new_ipv4, new_ipv6 (pinger/src/target.rs), get_host_ipaddr              *)
(* (gping/src/main.rs), try_host_from_aws_region (gping/src/region_map.rs) *)
(***************************************************************************)
VARIABLES
    call_pc,      \* "idle", "called" or "returned"
    callee,       \* the function called
    args,         \* its arguments
    call_result   \* what it returned

callVars == <<call_pc, callee, args, call_result>>

(***************************************************************************)
(* FixedRingBuffer (src/ringbuffer.rs)                                      *)
(***************************************************************************)
VARIABLES
    ring_buf,     \* self.buf, the backing Vec
    vec_capacity, \* self.buf.capacity(), fixed by Vec::with_capacity
    ring_cap,     \* self.cap
    ring_head,    \* self.head
    pushed,       \* every element pushed so far, in push order
    ring_pc       \* "idle", "ready", or "panicked" once a push has panicked

ringVars == <<ring_buf, vec_capacity, ring_cap, ring_head, pushed, ring_pc>>

(***************************************************************************)
(* Outcomes of the raw ICMP worker's socket calls (src/linux.rs)           *)
(***************************************************************************)
VARIABLES
    send_result,  \* what socket.send_to returned in the latest send phase:
                  \* "none" (no probe was due), "ok", "err"
    read_result   \* what socket.read returned in the latest receive phase:
                  \* "none", "ok", "would_block", "err"

ioVars == <<send_result, read_result>>

(***************************************************************************)
(* The gping application (gping/src/main.rs)                               *)
(***************************************************************************)
VARIABLES
    cmd_mode,     \* args.cmd: the hosts are commands to watch
    app_data,     \* app.data: for each host the samples of its PlotData
    samples,      \* app.histogram.samples
    enabled,      \* app.histogram.enabled
    app_now,      \* the wall clock, Local::now()
    rx_events,    \* the queue of the mpsc::channel of Events (key_tx -> rx)
    killed,       \* the AtomicBool `killed`
    main_pc,      \* "idle", "loop", "join", "exited"
    njoined,      \* how many of `threads` main has joined
    thread_pc,    \* for each host its ping or command thread: "check", "recv",
                  \* "wait", "sleep", "done"
    render_pc,    \* the render thread: "check", "sleep", "done"
    key_pc,       \* the keyboard thread: "poll", "done"
    stream,       \* for each host its pinger's channel: "open", "closed"
    ndelivered    \* the results the pingers or commands have given so far

appVars == <<cmd_mode, app_data, samples, enabled, app_now, rx_events, killed,
             main_pc, njoined, thread_pc, render_pc, key_pc, stream,
             ndelivered>>

vars == <<procVars, loopVars, rawVars, codecVars, parserVars, detectVars,
          callVars, ringVars, ioVars, appVars>>

\* what the actions of one part leave alone: the variables of the other parts
notProc ==
    <<loopVars, rawVars, codecVars, parserVars, detectVars, callVars, ringVars,
     ioVars, appVars>>
notLoop ==
    <<procVars, rawVars, codecVars, parserVars, detectVars, callVars, ringVars,
     ioVars, appVars>>
notRaw ==
    <<procVars, loopVars, codecVars, parserVars, detectVars, callVars, ringVars,
     ioVars, appVars>>
notCodec ==
    <<procVars, loopVars, rawVars, parserVars, detectVars, callVars, ringVars,
     ioVars, appVars>>
notParser ==
    <<procVars, loopVars, rawVars, codecVars, detectVars, callVars, ringVars,
     ioVars, appVars>>
notDetect ==
    <<procVars, loopVars, rawVars, codecVars, parserVars, callVars, ringVars,
     ioVars, appVars>>
notCall ==
    <<procVars, loopVars, rawVars, codecVars, parserVars, detectVars, ringVars,
     ioVars, appVars>>
notRing ==
    <<procVars, loopVars, rawVars, codecVars, parserVars, detectVars, callVars,
     ioVars, appVars>>
notIo ==
    <<procVars, loopVars, codecVars, parserVars, detectVars, callVars,
     ringVars, appVars>>
notApp ==
    <<procVars, loopVars, rawVars, codecVars, parserVars, detectVars, callVars,
     ringVars, ioVars>>

\* ---- lines of the child's stdout -----------------------------------------
\* A line is described by what the parsers look at: its prefix class and, for
\* a line the time= pattern matches, the captured groups.
\*   cls     "banner"  starts with "PING "
\*           "timeout" starts with "Request timeout"
\*           "nomatch" anything the time= pattern does not match
\*           "time"    the time= pattern matches
\*   msBig   the ms group does not fit a u64
\*   ms      the value of the ms group (when it fits)
\*   nd      number of digits of the ns group (0: group absent)
\*   frac    the value of the ns group
Line(cls, msBig, ms, nd, frac) ==
    [cls |-> cls, msBig |-> msBig, ms |-> ms, nd |-> nd, frac |-> frac]

BannerLine   == Line("banner", FALSE, 0, 0, 0)
TimeoutLine  == Line("timeout", FALSE, 0, 0, 0)
NoMatchLine  == Line("nomatch", FALSE, 0, 0, 0)
\* "... time=23.1 ms"
PongLine     == Line("time", FALSE, 23, 1, 1)
\* "... time=14 ms" (no fractional part; Linux / Windows patterns)
PongIntLine  == Line("time", FALSE, 14, 0, 0)
\* "... time=1.1234567 ms": seven fractional digits
LongFracLine == Line("time", FALSE, 1, 7, 1234567)
\* "... time=99999999999999999999.5 ms": integer part beyond u64
HugeMsLine   == Line("time", TRUE, 0, 1, 5)

Lines == {BannerLine, TimeoutLine, NoMatchLine, PongLine, PongIntLine,
          LongFracLine, HugeMsLine}

\* what the Lines iterator yields: Ok(line) or Err(io error)
ReadErr == [cls |-> "ioerr"]
StdoutItems == Lines \cup {ReadErr}

\* ---- PingResult -----------------------------------------------------------
None == [kind |-> "None"]
Panic == [kind |-> "Panic"]
Pong(ms, ns, line) == [kind |-> "Pong", ms |-> ms, ns |-> ns, line |-> line]
Timeout(line) == [kind |-> "Timeout", line |-> line]
Unknown(line) == [kind |-> "Unknown", line |-> line]
PingExited(status, stderr) ==
    [kind |-> "PingExited", status |-> status, stderr |-> stderr]

RECURSIVE Pow10(_)
Pow10(e) == IF e = 0 THEN 1 ELSE 10 * Pow10(e - 1)

\* 10u64.pow(6 - number_of_digits) with number_of_digits: u32.
\* For number_of_digits > 6 the subtraction overflows: a debug build panics,
\* a release build wraps to an exponent >= 2^32 - 1 - 6, and 10^e mod 2^64 is
\* 0 for every e >= 64.
NsMultiplier(nd) ==
    IF nd <= 6 THEN Pow10(6 - nd)
    ELSE IF build = "debug" THEN -1
    ELSE 0

\* Parser::extract_regex
extract_regex(line) ==
    IF line.cls # "time" THEN None                     \* regex.captures(..)?
    ELSE IF line.msBig THEN None                       \* parse::<u64>().ok()?
    ELSE IF line.nd = 0 THEN Pong(line.ms, 0, line)
    ELSE IF NsMultiplier(line.nd) < 0 THEN Panic
    ELSE Pong(line.ms, line.frac * NsMultiplier(line.nd), line)

\* MacOSParser::parse
parse(line) ==
    IF line.cls = "banner" THEN None
    ELSE IF line.cls = "timeout" THEN Timeout(line)
    ELSE extract_regex(line)

\* ---- the child process ----------------------------------------------------
ExitStatuses == {0, 1, 2}
StderrKinds == {"utf8", "invalid"}

\* the child prints one more line (or the pipe read will fail)
ChildWrite ==
    /\ child_state = "running"
    /\ nwritten < MaxLines
    /\ \E item \in StdoutItems :
          stdout_pipe' = Append(stdout_pipe, item)
    /\ nwritten' = nwritten + 1
    /\ UNCHANGED <<build, worker_pc, child_state, child_status, child_stderr,
                   lines_read, chan, rx_alive, received, send_failed>>
    /\ UNCHANGED notProc

\* the child exits, with any status and any bytes on stderr
ChildExit ==
    /\ child_state = "running"
    /\ child_state' = "exited"
    /\ \E st \in ExitStatuses : child_status' = st
    /\ \E se \in StderrKinds : child_stderr' = se
    /\ UNCHANGED <<build, worker_pc, stdout_pipe, nwritten, lines_read, chan,
                   rx_alive, received, send_failed>>
    /\ UNCHANGED notProc

\* ---- the worker closure of Pinger::start ----------------------------------
\* a send that queues the result at the front instead of the back
SendFront(q, alive, result) == IF alive THEN <<result>> \o q ELSE q

\* tx.send(result): Ok while the Receiver lives, Err afterwards
SendOk(q, alive, result) == IF alive THEN Append(q, result) ELSE q

\* one turn of `for line in reader`: Ok(msg)
ReadLine ==
    /\ worker_pc = "reading"
    /\ stdout_pipe # <<>>
    /\ Head(stdout_pipe) # ReadErr
    /\ LET msg == Head(stdout_pipe)
           result == parse(msg)
       IN /\ stdout_pipe' = Tail(stdout_pipe)
          /\ lines_read' = Append(lines_read, msg)
          /\ IF result = Panic
             THEN /\ worker_pc' = "panicked"
                  /\ UNCHANGED <<chan, send_failed>>
             ELSE IF result = None
             THEN UNCHANGED <<worker_pc, chan, send_failed>>
             ELSE IF rx_alive
             THEN /\ chan' = SendOk(chan, rx_alive, result)
                  /\ UNCHANGED <<worker_pc, send_failed>>
             ELSE /\ worker_pc' = "waiting"          \* is_err() => break
                  /\ send_failed' = TRUE
                  /\ UNCHANGED chan
    /\ UNCHANGED <<build, child_state, child_status, child_stderr, nwritten,
                   rx_alive, received>>
    /\ UNCHANGED notProc

\* one turn of `for line in reader`: Err(_) => break
ReadError ==
    /\ worker_pc = "reading"
    /\ stdout_pipe # <<>>
    /\ Head(stdout_pipe) = ReadErr
    /\ stdout_pipe' = Tail(stdout_pipe)
    /\ lines_read' = Append(lines_read, ReadErr)
    /\ worker_pc' = "waiting"
    /\ UNCHANGED <<build, child_state, child_status, child_stderr, nwritten,
                   chan, rx_alive, received, send_failed>>
    /\ UNCHANGED notProc

\* the reader reaches end of file: the child has exited and the pipe is empty
ReadEof ==
    /\ worker_pc = "reading"
    /\ stdout_pipe = <<>>
    /\ child_state = "exited"
    /\ worker_pc' = "waiting"
    /\ UNCHANGED <<build, child_state, child_status, child_stderr, stdout_pipe,
                   nwritten, lines_read, chan, rx_alive, received, send_failed>>
    /\ UNCHANGED notProc

\* a worker that goes back to reading after it has sent PingExited
WaitAndKeepReading ==
    /\ worker_pc = "waiting"
    /\ child_state = "exited"
    /\ IF child_stderr = "invalid"
       THEN /\ worker_pc' = "panicked"
            /\ UNCHANGED <<chan, send_failed>>
       ELSE /\ worker_pc' = "reading"
            /\ chan' = SendOk(chan, rx_alive,
                              PingExited(child_status, child_stderr))
            /\ send_failed' = (send_failed \/ ~rx_alive)
    /\ UNCHANGED <<build, child_state, child_status, child_stderr, stdout_pipe,
                   nwritten, lines_read, rx_alive, received>>
    /\ UNCHANGED notProc

\* child.wait_with_output(), String::from_utf8(..).expect(..), and the final
\* `let _ = tx.send(PingExited(..))`
WaitAndExit ==
    /\ worker_pc = "waiting"
    /\ child_state = "exited"
    /\ IF child_stderr = "invalid"
       THEN /\ worker_pc' = "panicked"
            /\ UNCHANGED <<chan, send_failed>>
       ELSE /\ worker_pc' = "done"
            /\ chan' = SendOk(chan, rx_alive,
                              PingExited(child_status, child_stderr))
            /\ send_failed' = (send_failed \/ ~rx_alive)
    /\ UNCHANGED <<build, child_state, child_status, child_stderr, stdout_pipe,
                   nwritten, lines_read, rx_alive, received>>
    /\ UNCHANGED notProc

\* ---- the caller -----------------------------------------------------------
\* rx.recv()
Recv ==
    /\ rx_alive
    /\ chan # <<>>
    /\ received' = Append(received, Head(chan))
    /\ chan' = Tail(chan)
    /\ UNCHANGED <<build, worker_pc, child_state, child_status, child_stderr,
                   stdout_pipe, nwritten, lines_read, rx_alive, send_failed>>
    /\ UNCHANGED notProc

\* the Receiver is dropped: what is still queued is discarded
DropRx ==
    /\ rx_alive
    /\ rx_alive' = FALSE
    /\ chan' = <<>>
    /\ UNCHANGED <<build, worker_pc, child_state, child_status, child_stderr,
                   stdout_pipe, nwritten, lines_read, received, send_failed>>
    /\ UNCHANGED notProc

ProcIdle ==
    /\ build = "release"
    /\ worker_pc = "done"
    /\ child_state = "exited"
    /\ child_status = 0
    /\ child_stderr = "utf8"
    /\ stdout_pipe = <<>>
    /\ nwritten = 0
    /\ lines_read = <<>>
    /\ chan = <<>>
    /\ rx_alive = FALSE
    /\ received = <<>>
    /\ send_failed = FALSE

ProcInit ==
    /\ build \in {"debug", "release"}
    /\ worker_pc = "reading"
    /\ child_state = "running"
    /\ child_status = 0
    /\ child_stderr = "utf8"
    /\ stdout_pipe = <<>>
    /\ nwritten = 0
    /\ lines_read = <<>>
    /\ chan = <<>>
    /\ rx_alive = TRUE
    /\ received = <<>>
    /\ send_failed = FALSE

ProcNext ==
    \/ ChildWrite
    \/ ChildExit
    \/ ReadLine
    \/ ReadError
    \/ ReadEof
    \/ WaitAndExit
    \/ Recv
    \/ DropRx

(***************************************************************************)
(* The looping workers                                                     *)
(***************************************************************************)
Failed(status, msg) == [kind |-> "Failed", status |-> status, msg |-> msg]

\* the state of the channel after tx.send(result)
LoopSend(result) ==
    /\ loop_chan' = SendOk(loop_chan, loop_rx_alive, result)
    /\ last_send' = IF loop_rx_alive THEN "ok" ELSE "err"

\* ---- TcpPinger::start ------------------------------------------------------
ResolveOutcomes == {"addr", "empty", "err"}
ConnectOutcomes == {"connected", "refused", "timed_out", "unreachable"}

\* a TCP loop that takes every failed connect for a timeout
TcpResultNoRst(resolved, connected) ==
    IF resolved = "empty" THEN Unknown("Unable to resolve address")
    ELSE IF resolved = "err" THEN Unknown("Resolve error")
    ELSE IF connected = "connected" THEN Pong(0, 0, "addr")
    ELSE Timeout("addr")

\* the result one iteration of the TCP loop sends
TcpResult(resolved, connected) ==
    IF resolved = "empty" THEN Unknown("Unable to resolve address")
    ELSE IF resolved = "err" THEN Unknown("Resolve error")
    ELSE IF connected = "connected" THEN Pong(0, 0, "addr")
    ELSE IF connected = "refused" /\ allow_rst THEN Pong(0, 0, "addr")
    ELSE Timeout("addr")

\* where the TCP loop goes after its send: `continue` after a resolution
\* failure, thread::sleep otherwise; the result of the send is discarded
TcpAfter(resolved) == IF resolved = "addr" THEN "sleep" ELSE "probe"

\* one iteration of `for _ in 0..` up to the sleep
TcpAttempt ==
    /\ strategy = "tcp"
    /\ loop_thread = "running"
    /\ loop_pc = "probe"
    /\ attempts < MaxAttempts
    /\ attempts' = attempts + 1
    /\ \E resolved \in ResolveOutcomes :
          \E connected \in IF resolved = "addr" THEN ConnectOutcomes
                            ELSE {"none"} :
              /\ tcp_outcome' = [resolved |-> resolved, connected |-> connected]
              /\ LoopSend(TcpResult(resolved, connected))
              /\ loop_pc' = TcpAfter(resolved)
    /\ UNCHANGED <<strategy, allow_rst, loop_rx_alive, handleVars>>
    /\ UNCHANGED notLoop

\* ---- LinuxPinger::start (one ping command per iteration) -------------------
\* what run_ping(..).await gives: the command could not be run, it ran and
\* failed, or it ran and succeeded with some stdout
RunOutcomes == {"spawn_err", "status_fail", "success"}
\* stdout of a successful run: a reply line with time=, a "64 bytes from"
\* line the pattern does not match, no reply line at all, or bytes that are
\* not UTF-8
StdoutKinds == {"reply", "reply_nomatch", "no_reply", "invalid"}

\* LinuxParser::parse on the whole stdout of one run
parse_lines(out) ==
    IF out = "reply" THEN extract_regex(PongLine)
    ELSE IF out = "reply_nomatch" THEN extract_regex(NoMatchLine)
    ELSE Failed("1", "Failed to parse")

CmdAttempt ==
    /\ strategy = "cmd"
    /\ loop_thread = "running"
    /\ loop_pc = "probe"
    /\ attempts < MaxAttempts
    /\ attempts' = attempts + 1
    /\ \E ran \in RunOutcomes, out \in StdoutKinds :
          IF ran = "spawn_err" THEN
              /\ loop_pc' = "panicked"                      \* panic!(..)
              /\ last_send' = "none"
              /\ UNCHANGED loop_chan
          ELSE IF ran = "status_fail" THEN
              /\ LoopSend(Failed("status", "Timeout reached"))   \* .ok()
              /\ loop_pc' = "sleep"
          ELSE IF out = "invalid" THEN
              /\ loop_pc' = "panicked"                      \* expect(..)
              /\ last_send' = "none"
              /\ UNCHANGED loop_chan
          ELSE IF parse_lines(out) = None THEN
              /\ loop_pc' = "sleep"
              /\ last_send' = "none"
              /\ UNCHANGED loop_chan
          ELSE
              /\ LoopSend(parse_lines(out))
              /\ loop_pc' = IF loop_rx_alive THEN "sleep" ELSE "done"
    /\ UNCHANGED <<strategy, allow_rst, loop_rx_alive, handleVars>>
    /\ UNCHANGED <<tcp_outcome, notLoop>>

\* ---- WindowsPinger::start ---------------------------------------------------
WinOutcomes == {"rtt", "err"}

WinAttempt ==
    /\ strategy = "win"
    /\ loop_thread = "running"
    /\ loop_pc = "probe"
    /\ attempts < MaxAttempts
    /\ attempts' = attempts + 1
    /\ \E res \in WinOutcomes :
          IF res = "rtt" THEN
              /\ LoopSend(Pong(0, 0, ""))
              /\ loop_pc' = IF loop_rx_alive THEN "sleep" ELSE "done"
          ELSE
              /\ LoopSend(Failed("-1", "error"))             \* .ok()
              /\ loop_pc' = "sleep"
    /\ UNCHANGED <<strategy, allow_rst, loop_rx_alive, handleVars>>
    /\ UNCHANGED <<tcp_outcome, notLoop>>

\* ---- FakePinger::start ------------------------------------------------------
\* rand's gen_range over the half-open range lo..hi
gen_range(lo, hi) == lo..(hi - 1)

\* the durations looked at, in milliseconds, around both ends of the range
DurationSamples == {49, 50, 51, 100, 149, 150, 151}

FakeAttempt ==
    /\ strategy = "fake"
    /\ loop_thread = "running"
    /\ loop_pc = "probe"
    /\ attempts < MaxAttempts
    /\ attempts' = attempts + 1
    /\ \E fake_seconds \in gen_range(50, 150) \cap DurationSamples :
          /\ LoopSend(Pong(fake_seconds, 0, "Fake ping line"))
          /\ loop_pc' = IF loop_rx_alive THEN "sleep" ELSE "done"
    /\ UNCHANGED <<strategy, allow_rst, loop_rx_alive, handleVars>>
    /\ UNCHANGED <<tcp_outcome, notLoop>>

\* thread::sleep(interval) / time::sleep(interval).await returns
LoopSleep ==
    /\ loop_thread = "running"
    /\ loop_pc = "sleep"
    /\ loop_pc' = "probe"
    /\ UNCHANGED <<strategy, allow_rst, loop_chan, loop_rx_alive, last_send,
                   attempts, handleVars>>
    /\ UNCHANGED <<tcp_outcome, notLoop>>

\* the caller takes a result from the channel
LoopRecv ==
    /\ loop_rx_alive
    /\ loop_chan # <<>>
    /\ loop_chan' = Tail(loop_chan)
    /\ UNCHANGED <<strategy, allow_rst, loop_pc, loop_rx_alive, last_send,
                   attempts, handleVars>>
    /\ UNCHANGED <<tcp_outcome, notLoop>>

\* the caller drops the Receiver
LoopDropRx ==
    /\ loop_rx_alive
    /\ loop_rx_alive' = FALSE
    /\ loop_chan' = <<>>
    /\ UNCHANGED <<strategy, allow_rst, loop_pc, last_send, attempts,
                   handleVars>>
    /\ UNCHANGED <<tcp_outcome, notLoop>>

\* ---- the worker thread and the Pinger handle of the looping workers ------
\* the thread closure starts: the command and Windows workers build a tokio
\* runtime (`.build().unwrap()`) and spawn the loop on it
LoopThreadStart ==
    /\ loop_thread = "spawned"
    /\ \E built \in BOOLEAN :
          loop_thread' = IF built \/ strategy \in {"tcp", "fake"}
                         THEN "running"
                         ELSE "panicked"
    /\ UNCHANGED <<strategy, allow_rst, loop_pc, loop_chan, loop_rx_alive,
                   last_send, attempts, exit_notified, ping_thread>>
    /\ UNCHANGED <<tcp_outcome, notLoop>>

\* runtime.block_on(exit_receiver) returns: the closure ends, the runtime is
\* dropped and with it the loop task
LoopThreadExit ==
    /\ loop_thread = "running"
    /\ exit_notified
    /\ loop_thread' = "exited"
    /\ loop_pc' = IF loop_pc \in {"probe", "sleep"} THEN "cancelled" ELSE loop_pc
    /\ UNCHANGED <<strategy, allow_rst, loop_chan, loop_rx_alive, last_send,
                   attempts, exit_notified, ping_thread>>
    /\ UNCHANGED <<tcp_outcome, notLoop>>

\* Drop for Pinger: notify_exit_sender.send(()).unwrap()
\* send is Err once the thread, which owns exit_receiver, has ended
HandleNotify ==
    /\ ping_thread = "held"
    /\ IF loop_thread \in {"spawned", "running"}
       THEN /\ exit_notified' = TRUE
            /\ ping_thread' = "notified"
       ELSE /\ ping_thread' = "panicked"
            /\ UNCHANGED exit_notified
    /\ UNCHANGED <<strategy, allow_rst, loop_pc, loop_chan, loop_rx_alive,
                   last_send, attempts, loop_thread>>
    /\ UNCHANGED <<tcp_outcome, notLoop>>

\* Drop for Pinger: thread.join().unwrap(), then the fields are dropped
HandleJoin ==
    /\ ping_thread = "notified"
    /\ loop_thread \in {"exited", "panicked"}
    /\ IF loop_thread = "exited"
       THEN /\ ping_thread' = "joined"
            /\ loop_rx_alive' = FALSE
            /\ loop_chan' = <<>>
       ELSE /\ ping_thread' = "panicked"
            /\ UNCHANGED <<loop_rx_alive, loop_chan>>
    /\ UNCHANGED <<strategy, allow_rst, loop_pc, last_send, attempts,
                   loop_thread, exit_notified>>
    /\ UNCHANGED <<tcp_outcome, notLoop>>

LoopIdle ==
    /\ strategy = "tcp"
    /\ allow_rst = FALSE
    /\ loop_pc = "done"
    /\ loop_chan = <<>>
    /\ loop_rx_alive = FALSE
    /\ last_send = "none"
    /\ attempts = 0
    /\ tcp_outcome = [resolved |-> "none", connected |-> "none"]
    /\ loop_thread = "exited"
    /\ exit_notified = FALSE
    /\ ping_thread = "none"

\* the state start() returns in: the thread is spawned; the command and
\* Windows workers hand out a Pinger handle, the TCP worker only the Receiver
LoopInit ==
    /\ strategy \in {"tcp", "cmd", "win"}
    /\ allow_rst \in BOOLEAN
    /\ loop_pc = "probe"
    /\ loop_chan = <<>>
    /\ loop_rx_alive = TRUE
    /\ last_send = "none"
    /\ attempts = 0
    /\ tcp_outcome = [resolved |-> "none", connected |-> "none"]
    /\ loop_thread = "spawned"
    /\ exit_notified = FALSE
    /\ ping_thread = IF strategy = "tcp" THEN "none" ELSE "held"

\* the state FakePinger::start returns in: only the Receiver is handed out
FakeInit ==
    /\ strategy = "fake"
    /\ allow_rst = FALSE
    /\ loop_pc = "probe"
    /\ loop_chan = <<>>
    /\ loop_rx_alive = TRUE
    /\ last_send = "none"
    /\ attempts = 0
    /\ tcp_outcome = [resolved |-> "none", connected |-> "none"]
    /\ loop_thread = "spawned"
    /\ exit_notified = FALSE
    /\ ping_thread = "none"

FakeNext ==
    \/ LoopThreadStart
    \/ FakeAttempt
    \/ LoopSleep
    \/ LoopRecv
    \/ LoopDropRx

LoopNext ==
    \/ LoopThreadStart
    \/ TcpAttempt
    \/ CmdAttempt
    \/ WinAttempt
    \/ LoopSleep
    \/ LoopRecv
    \/ LoopDropRx

(***************************************************************************)
(* The raw ICMP echo engine                                                *)
(***************************************************************************)
IN_FLIGHT_TO_RETAIN == 10
\* mpsc::sync_channel(16)
CHANNEL_BOUND == 16

\* `let payload: Token = random()`: the token of the n-th probe.  Tokens are
\* 24 random bytes; the model draws them from an injective sequence whose
\* numeric order is unrelated to the order of sending.
TokenOf(n) == (n * 7) % 23
\* a token no probe carries
ForgedToken == 0

\* in_flight_table.insert(payload, send_time)
Insert(table, tok, at) ==
    [k \in (DOMAIN table) \cup {tok} |-> IF k = tok THEN at ELSE table[k]]

\* in_flight_table.remove(&token)
Remove(table, tok) == [k \in (DOMAIN table) \ {tok} |-> table[k]]

\* an eviction that removes the entry sent last
Newest(table) ==
    CHOOSE k \in DOMAIN table : \A j \in DOMAIN table : table[j] <= table[k]

\* iter().max_by(elapsed): the entry with the longest elapsed time, that is
\* the earliest send instant
Oldest(table) ==
    CHOOSE k \in DOMAIN table : \A j \in DOMAIN table : table[k] <= table[j]

\* a send phase that evicts nothing
KeepAll(table) == table

\* while in_flight_table.len() > IN_FLIGHT_TO_RETAIN { remove the oldest }
RECURSIVE Evict(_)
Evict(table) ==
    IF Cardinality(DOMAIN table) > IN_FLIGHT_TO_RETAIN
    THEN Evict(Remove(table, Oldest(table)))
    ELSE table

\* a try_send that waits for room: the Pong is queued whatever the length
SendUnbounded(q, pong) == Append(q, pong)

\* tx.try_send(..).ok(): queued when the channel has room, dropped otherwise
try_send(q, pong) == IF Len(q) < CHANNEL_BOUND THEN Append(q, pong) ELSE q

\* the probes in flight a reply may arrive for: the ReorderWindow oldest
Answerable(table) ==
    {k \in DOMAIN table :
        Cardinality({j \in DOMAIN table : table[j] < table[k]}) < ReorderWindow}

\* what socket.read and the decoders make of the socket's state: nothing to
\* read, a datagram one of the decoders rejects, or an echo reply with a
\* 24-byte payload: the token of a probe in flight, the token of the first
\* probe (a late or repeated reply once it has left the table) or a token
\* no probe carried
Datagrams ==
    {[kind |-> k, tok |-> ForgedToken] :
        k \in {"would_block", "bad_ip", "bad_icmp", "bad_len"}}
    \cup {[kind |-> "reply", tok |-> t] : t \in Answerable(in_flight_table)}
    \cup {[kind |-> "reply", tok |-> TokenOf(i)] :
             i \in 1..(IF nsent > 0 THEN 1 ELSE 0)}
    \cup {[kind |-> "reply", tok |-> ForgedToken]}

\* thread start: raise_cap_net_raw_to_effective and Socket::new
WorkerStart ==
    /\ raw_pc = "start"
    /\ \E raised \in BOOLEAN, socket_ok \in BOOLEAN :
          /\ socket_ok => raised          \* a raw socket needs CAP_NET_RAW
          /\ cap_effective' = raised      \* caps::raise: Ok, or Err logged
          /\ raw_pc' = IF socket_ok THEN "loop" ELSE "exited"     \* return
    /\ UNCHANGED <<run, nsent, in_flight_table, raw_chan, last_elapsed,
                   overtakes, nrecv, drop_pc, pipe_written>>
    /\ UNCHANGED <<probe_limit, notRaw>>

\* `while run.load(..)`: leave the loop (close(read_fd), drop the capability)
\* or go on, into select when the interval has not yet elapsed
LoopCheck ==
    /\ raw_pc = "loop"
    /\ IF run
       THEN /\ \E wait \in BOOLEAN :
                 raw_pc' = IF wait THEN "select" ELSE "send"
            /\ UNCHANGED cap_effective
       ELSE /\ raw_pc' = "exited"
            /\ cap_effective' = FALSE
    /\ last_elapsed' = -1
    /\ UNCHANGED <<run, nsent, in_flight_table, raw_chan, overtakes, nrecv,
                   drop_pc, pipe_written>>
    /\ UNCHANGED <<probe_limit, notRaw>>

\* libc::select returns: the timeout ran out, the socket is readable, or the
\* pipe is
SelectReturn ==
    /\ raw_pc = "select"
    /\ raw_pc' = "send"
    /\ UNCHANGED <<run, nsent, in_flight_table, raw_chan, last_elapsed,
                   overtakes, nrecv, drop_pc, pipe_written,
                   cap_effective>>
    /\ UNCHANGED <<probe_limit, notRaw>>

\* the send phase: when the interval has elapsed, send a probe with a fresh
\* token (the result of send_to is discarded), record it and evict
SendPhase ==
    /\ raw_pc = "send"
    /\ raw_pc' = "recv"
    /\ \E due \in BOOLEAN :
          IF due /\ nsent < probe_limit
          THEN /\ nsent' = nsent + 1
               /\ in_flight_table' =
                     Evict(Insert(in_flight_table, TokenOf(nsent + 1),
                                  nsent + 1))
          ELSE UNCHANGED <<nsent, in_flight_table>>
    /\ UNCHANGED <<run, raw_chan, last_elapsed, overtakes, nrecv,
                   drop_pc, pipe_written, cap_effective>>
    /\ UNCHANGED <<probe_limit, notRaw>>

\* a receive phase that reports a reply and leaves its entry in the table
RecvPhaseKeepEntry ==
    /\ raw_pc = "recv"
    /\ raw_pc' = "loop"
    /\ \E d \in Datagrams :
          IF d.kind = "reply" /\ d.tok \in DOMAIN in_flight_table
          THEN LET late == d.tok # Oldest(in_flight_table)
                   pong == [tok |-> d.tok,
                            sent_at |-> in_flight_table[d.tok]]
               IN /\ late => overtakes < MaxOvertakes
                  /\ overtakes' = IF late THEN overtakes + 1 ELSE overtakes
                  /\ in_flight_table' = in_flight_table
                  /\ raw_chan' = try_send(raw_chan, pong)
                  /\ last_elapsed' = nsent - in_flight_table[d.tok]
          ELSE UNCHANGED <<in_flight_table, raw_chan, last_elapsed,
                           overtakes>>
    /\ UNCHANGED <<run, nsent, nrecv, drop_pc, pipe_written, cap_effective>>
    /\ UNCHANGED <<probe_limit, notRaw>>

\* the receive phase: one socket.read; an echo reply whose token is in the
\* table removes the entry and try_sends the elapsed time
RecvPhase ==
    /\ raw_pc = "recv"
    /\ raw_pc' = "loop"
    /\ \E d \in Datagrams :
          IF d.kind = "reply" /\ d.tok \in DOMAIN in_flight_table
          THEN LET late == d.tok # Oldest(in_flight_table)
                   pong == [tok |-> d.tok,
                            sent_at |-> in_flight_table[d.tok]]
               IN /\ late => overtakes < MaxOvertakes
                  /\ overtakes' = IF late THEN overtakes + 1 ELSE overtakes
                  /\ in_flight_table' = Remove(in_flight_table, d.tok)
                  /\ raw_chan' = try_send(raw_chan, pong)
                  /\ last_elapsed' = nsent - in_flight_table[d.tok]
          ELSE UNCHANGED <<in_flight_table, raw_chan, last_elapsed,
                           overtakes>>
    /\ UNCHANGED <<run, nsent, nrecv, drop_pc, pipe_written, cap_effective>>
    /\ UNCHANGED <<probe_limit, notRaw>>

\* the caller takes a Pong from pinger.channel
RawRecv ==
    /\ drop_pc = "held"
    /\ raw_chan # <<>>
    /\ nrecv < MaxRecv
    /\ raw_chan' = Tail(raw_chan)
    /\ nrecv' = nrecv + 1
    /\ UNCHANGED <<run, raw_pc, nsent, in_flight_table, last_elapsed,
                   overtakes, drop_pc, pipe_written, cap_effective>>
    /\ UNCHANGED <<probe_limit, notRaw>>

RawIdle ==
    /\ run = FALSE
    /\ raw_pc = "exited"
    /\ nsent = 0
    /\ in_flight_table = <<>>
    /\ raw_chan = <<>>
    /\ last_elapsed = -1
    /\ overtakes = 0
    /\ nrecv = 0
    /\ drop_pc = "joined"
    /\ pipe_written = FALSE
    /\ cap_effective = FALSE
    /\ probe_limit = 0

\* the state Pinger::new returns in
RawInit ==
    /\ run = TRUE
    /\ raw_pc = "start"
    /\ nsent = 0
    /\ in_flight_table = <<>>
    /\ raw_chan = <<>>
    /\ last_elapsed = -1
    /\ overtakes = 0
    /\ nrecv = 0
    /\ drop_pc = "held"
    /\ pipe_written = FALSE
    /\ cap_effective = FALSE
    /\ probe_limit \in {MaxProbes, MaxDropProbes}

\* ---- impl Drop for Pinger (src/linux.rs) ----------------------------------
\* self.run.store(false, ..)
DropStore ==
    /\ drop_pc = "held"
    /\ run' = FALSE
    /\ drop_pc' = "stored"
    /\ UNCHANGED <<raw_pc, nsent, in_flight_table, raw_chan, last_elapsed,
                   overtakes, nrecv, pipe_written, cap_effective>>
    /\ UNCHANGED <<probe_limit, notRaw>>

\* libc::write(self.send_pipe_fd, "wakeup", 6)
DropWrite ==
    /\ drop_pc = "stored"
    /\ pipe_written' = TRUE
    /\ drop_pc' = "written"
    /\ UNCHANGED <<run, raw_pc, nsent, in_flight_table, raw_chan, last_elapsed,
                   overtakes, nrecv, cap_effective>>
    /\ UNCHANGED <<probe_limit, notRaw>>

\* thread.join().ok() returns once the worker closure has returned; the pipe
\* is closed and the fields (the Receiver among them) are dropped
DropJoin ==
    /\ drop_pc = "written"
    /\ raw_pc = "exited"
    /\ drop_pc' = "joined"
    /\ raw_chan' = <<>>
    /\ UNCHANGED <<run, raw_pc, nsent, in_flight_table, last_elapsed,
                   overtakes, nrecv, pipe_written, cap_effective>>
    /\ UNCHANGED <<probe_limit, notRaw>>

RawNext ==
    \/ WorkerStart
    \/ LoopCheck
    \/ SelectReturn
    \/ SendPhase
    \/ RecvPhase
    \/ RawRecv

(***************************************************************************)
(* The output parsers                                                      *)
(***************************************************************************)
\* A line is a sequence of pieces of text.  The words the parsers search for
\* ("PING ", "64 bytes from", "timed out", "time=", ...) are pieces of their
\* own; what follows "time=" is given character by character.
Digits == {"0", "1", "2", "3", "4", "5", "6", "7", "8", "9"}

DigitVal(c) ==
    CASE c = "0" -> 0 [] c = "1" -> 1 [] c = "2" -> 2 [] c = "3" -> 3
      [] c = "4" -> 4 [] c = "5" -> 5 [] c = "6" -> 6 [] c = "7" -> 7
      [] c = "8" -> 8 [] c = "9" -> 9

\* str::parse::<u64>() of a run of digits is Ok: a run of more than 20
\* digits never fits; the runs the model draws have at most 7 digits and
\* always fit
FitsU64(ds) == Len(ds) <= 20

\* the value str::parse::<u64>() gives
RECURSIVE parse_u64(_)
parse_u64(ds) ==
    IF Len(ds) = 0 THEN 0
    ELSE 10 * parse_u64(SubSeq(ds, 1, Len(ds) - 1)) + DigitVal(ds[Len(ds)])

\* line.starts_with(prefix)
starts_with(line, prefix) == Len(line) >= 1 /\ line[1] = prefix

\* line.contains(word)
contains(line, word) == \E i \in 1..Len(line) : line[i] = word

\* The three time= patterns, by what distinguishes them:
\*   icase     (?i): letters match in either case
\*   any_sep   the separator between the groups is `.` unescaped (any
\*             character) rather than `\.`
\*   need_ns   the separator and the ns group are not optional
\*   min_ws    least number of blanks before the unit
\*   any_ws    the blanks are \s (any whitespace) rather than ` `
\*   unit      the pattern ends with "ms"
\* r"(?i-u)time=(?P<ms>\d+)(?:\.(?P<ns>\d+))? *ms"
UBUNTU_RE == [icase |-> TRUE, any_sep |-> FALSE, need_ns |-> FALSE,
              min_ws |-> 0, any_ws |-> FALSE, unit |-> TRUE]

\* r"(?ix-u)time=(?P<ms>\d+)(?:\.(?P<ns>\d+))?"
WINDOWS_RE == [icase |-> TRUE, any_sep |-> FALSE, need_ns |-> FALSE,
               min_ws |-> 0, any_ws |-> FALSE, unit |-> FALSE]

\* r"time=(?:(?P<ms>[0-9]+).(?P<ns>[0-9]+)\s+ms)" (bsd.rs and macos.rs)
BSD_RE == [icase |-> FALSE, any_sep |-> TRUE, need_ns |-> TRUE,
           min_ws |-> 1, any_ws |-> TRUE, unit |-> TRUE]

AllDigits(t, from, n) == \A i \in from..(from + n - 1) : t[i] \in Digits

\* the ways the pattern matches t with "time=" at position at - 1: n1
\* digits for ms, then (n2 > 0) a separator and n2 digits for ns, then k
\* blanks and the unit
MatchesAt(re, t, at) ==
    {m \in (1..Len(t)) \X (0..Len(t)) \X (0..Len(t)) :
        LET n1 == m[1]
            n2 == m[2]
            k == m[3]
            sep == at + n1
            ws == IF n2 = 0 THEN sep ELSE sep + 1 + n2
            unit == ws + k
        IN /\ unit - 1 <= Len(t)
           /\ AllDigits(t, at, n1)
           /\ n2 = 0 => ~re.need_ns
           /\ n2 > 0 => /\ (re.any_sep \/ t[sep] = ".")
                        /\ AllDigits(t, sep + 1, n2)
           /\ IF re.unit
              THEN /\ k >= re.min_ws
                   /\ \A i \in ws..(unit - 1) :
                         t[i] = " " \/ (re.any_ws /\ t[i] = "\t")
                   /\ unit + 1 <= Len(t)
                   /\ t[unit] = "m" \/ (re.icase /\ t[unit] = "M")
                   /\ t[unit + 1] = "s" \/ (re.icase /\ t[unit + 1] = "S")
              ELSE k = 0}

\* regex.captures(&line): the leftmost "time=" the pattern matches at; the
\* quantifiers are greedy, so ms is as long as a match allows and then ns
Captures(re, t) ==
    LET starts == {i \in 2..(Len(t) + 1) :
                     /\ t[i - 1] = "time=" \/ (re.icase /\ t[i - 1] = "TIME=")
                     /\ MatchesAt(re, t, i) # {}}
    IN IF starts = {} THEN None
       ELSE LET at == CHOOSE i \in starts : \A j \in starts : i <= j
                ms == CHOOSE m \in MatchesAt(re, t, at) :
                        \A o \in MatchesAt(re, t, at) :
                           o[1] < m[1] \/ (o[1] = m[1] /\ o[2] <= m[2])
            IN [kind |-> "Captures",
                ms |-> SubSeq(t, at, at + ms[1] - 1),
                has_ns |-> ms[2] > 0,
                ns |-> SubSeq(t, at + ms[1] + 1, at + ms[1] + ms[2])]

\* an extract_regex that takes the ns group for nanoseconds as it stands
ExtractRegexUnscaled(re, line) ==
    LET cap == Captures(re, line)
    IN IF cap = None THEN None
       ELSE IF ~FitsU64(cap.ms) THEN None
       ELSE IF ~cap.has_ns THEN Pong(parse_u64(cap.ms), 0, line)
       ELSE IF ~FitsU64(cap.ns) THEN None
       ELSE Pong(parse_u64(cap.ms), parse_u64(cap.ns), line)

\* Parser::extract_regex on the text of a line
ExtractRegex(re, line) ==
    LET cap == Captures(re, line)
    IN IF cap = None THEN None                          \* captures(..)?
       ELSE IF ~FitsU64(cap.ms) THEN None               \* .parse().ok()?
       ELSE IF ~cap.has_ns THEN Pong(parse_u64(cap.ms), 0, line)
       ELSE IF ~FitsU64(cap.ns) THEN None
       ELSE IF NsMultiplier(Len(cap.ns)) < 0 THEN Panic
       ELSE Pong(parse_u64(cap.ms),
                 parse_u64(cap.ns) * NsMultiplier(Len(cap.ns)), line)

\* LinuxParser::parse: the first line that starts with "64 bytes from"
LinuxParser_parse(lines) ==
    LET replies == {i \in 1..Len(lines) :
                      starts_with(lines[i], "64 bytes from")}
    IN IF replies = {} THEN Failed("1", "Failed to parse")
       ELSE ExtractRegex(UBUNTU_RE,
                         lines[CHOOSE i \in replies :
                                 \A j \in replies : i <= j])

\* WindowsParser::parse
WindowsParser_parse(line) ==
    IF contains(line, "timed out") \/ contains(line, "failure")
    THEN Failed("1", line)
    ELSE ExtractRegex(WINDOWS_RE, line)

\* MacOSParser::parse
MacOSParser_parse(line) ==
    IF starts_with(line, "PING ") THEN None
    ELSE IF starts_with(line, "Request timeout") THEN Timeout(line)
    ELSE ExtractRegex(BSD_RE, line)

\* parse_bsd
parse_bsd(line) ==
    IF starts_with(line, "PING ") THEN None
    ELSE IF starts_with(line, "Request timeout") THEN Timeout(line)
    ELSE ExtractRegex(BSD_RE, line)

\* ---- the lines tried ------------------------------------------------------
BannerText == <<"PING ", "1.1.1.1 (1.1.1.1) 56(84) bytes of data.">>

\* how a line begins
Heads ==
    {<<"PING ", "1.1.1.1 (1.1.1.1): 56 data bytes">>,
     <<"Request timeout", " for icmp_seq 0">>,
     <<"no answer yet", " for icmp_seq=2">>,
     <<"64 bytes from", " 1.1.1.1: icmp_seq=1 ttl=64 ">>,
     <<"Reply from", " 1.1.1.1: bytes=32 ">>,
     <<"Request ", "timed out", ".">>,
     <<"General ", "failure", ". ">>,
     <<"ping: sendmsg: No route to host">>}

\* what follows "time=": an integer part, a fractional part of up to seven
\* digits or none, a blank or none, the unit in either case or none
IntParts == {<<"7">>, <<"1", "4">>, <<"2", "3">>, <<"1", "2", "3">>, <<"0">>}

FracParts ==
    {<<>>, <<".", "1">>, <<".", "0", "4", "5">>,
     <<".", "1", "2", "3", "4", "5", "6">>,
     <<".", "1", "2", "3", "4", "5", "6", "7">>}

Blanks == {<<>>, <<" ">>}

Units == {<<"m", "s">>, <<"M", "S">>, <<>>}

TimeParts ==
    {<<>>} \cup
    {<<"time=">> \o i \o f \o b \o u \o <<" TTL=64">> :
        i \in IntParts, f \in FracParts, b \in Blanks, u \in Units}

TextLines == {<<>>} \cup {h \o t : h \in Heads, t \in TimeParts}

\* what the Linux parser is handed: the output of one run of ping, a line
\* alone or after the banner
LinuxOutputs ==
    {<<l>> : l \in TextLines} \cup {<<BannerText, l>> : l \in TextLines}

\* ---- applying a parser ----------------------------------------------------
ParseLinux ==
    /\ parse_pc = "ready"
    /\ parser_kind = "linux"
    /\ parsed' = LinuxParser_parse(input)
    /\ parse_pc' = "parsed"
    /\ UNCHANGED <<parser_kind, input>>
    /\ UNCHANGED notParser

ParseWindows ==
    /\ parse_pc = "ready"
    /\ parser_kind = "windows"
    /\ parsed' = WindowsParser_parse(input[1])
    /\ parse_pc' = "parsed"
    /\ UNCHANGED <<parser_kind, input>>
    /\ UNCHANGED notParser

ParseMacOS ==
    /\ parse_pc = "ready"
    /\ parser_kind = "macos"
    /\ parsed' = MacOSParser_parse(input[1])
    /\ parse_pc' = "parsed"
    /\ UNCHANGED <<parser_kind, input>>
    /\ UNCHANGED notParser

ParseBsd ==
    /\ parse_pc = "ready"
    /\ parser_kind = "bsd"
    /\ parsed' = parse_bsd(input[1])
    /\ parse_pc' = "parsed"
    /\ UNCHANGED <<parser_kind, input>>
    /\ UNCHANGED notParser

ParserIdle ==
    /\ parse_pc = "idle"
    /\ parser_kind = "linux"
    /\ input = <<>>
    /\ parsed = None

ParserInit ==
    /\ parse_pc = "ready"
    /\ parser_kind \in {"linux", "bsd", "macos", "windows"}
    /\ input \in IF parser_kind = "linux" THEN LinuxOutputs
                ELSE {<<l>> : l \in TextLines}
    /\ parsed = None

ParserNext ==
    \/ ParseLinux
    \/ ParseWindows
    \/ ParseMacOS
    \/ ParseBsd

(***************************************************************************)
(* Detection of the Linux ping (pinger/src/linux.rs, detect_linux_ping)    *)
(***************************************************************************)
MaxOutputLines == 3

\* lines `ping -V` prints, by the words the detection looks for
VersionLines ==
    { <<"ping from ", "iputils", " 20211215">>,
      <<"ping (GNU ", "inetutils", ") 2.0">>,
      <<"BusyBox", " v1.36.1 multi-call binary.">>,
      <<"Usage: ping [OPTIONS] HOST">> }

\* the captured streams: up to MaxOutputLines lines each
Streams == UNION {[1..n -> VersionLines] : n \in 0..MaxOutputLines}

\* str::contains on a text of several lines; the word holds no line break
text_contains(text, word) == \E i \in 1..Len(text) : contains(text[i], word)

\* text.lines().take(2).collect()
first_two_lines(text) ==
    SubSeq(text, 1, IF Len(text) < 2 THEN Len(text) ELSE 2)

\* LinuxPingType, as the caller in lib.rs:208-221 matches it
IPTools == [kind |-> "Ok", ping |-> "IPTools"]
BusyBox == [kind |-> "Ok", ping |-> "BusyBox"]
\* PingDetectionError
NotSupported == [kind |-> "NotSupported"]
UnknownPing(out, err) == [kind |-> "UnknownPing", stdout |-> out, stderr |-> err]

\* the only Ok the function returns is taken by the caller's first arm, the
\* one of iputils
detect_linux_ping(stdout, stderr) ==
    IF text_contains(stdout, "iputils") THEN IPTools
    ELSE UnknownPing(first_two_lines(stdout), first_two_lines(stderr))

Detect ==
    /\ detect_pc = "captured"
    /\ detected' = detect_linux_ping(ping_stdout, ping_stderr)
    /\ detect_pc' = "detected"
    /\ UNCHANGED <<ping_stdout, ping_stderr>>
    /\ UNCHANGED notDetect

DetectIdle ==
    /\ detect_pc = "idle"
    /\ ping_stdout = <<>>
    /\ ping_stderr = <<>>
    /\ detected = None

\* run_ping("ping", ["-V"]) has returned the output, both streams UTF-8
DetectInit ==
    /\ detect_pc = "captured"
    /\ ping_stdout \in Streams
    /\ ping_stderr \in Streams
    /\ detected = None

DetectNext == Detect

(***************************************************************************)
(* The ICMP codec                                                          *)
(***************************************************************************)
ICMP_HEADER_SIZE == 8

IcmpV4 == [ECHO_REQUEST_TYPE |-> 8, ECHO_REQUEST_CODE |-> 0,
           ECHO_REPLY_TYPE |-> 0, ECHO_REPLY_CODE |-> 0]

IcmpV6 == [ECHO_REQUEST_TYPE |-> 128, ECHO_REQUEST_CODE |-> 0,
           ECHO_REPLY_TYPE |-> 129, ECHO_REPLY_CODE |-> 0]

EchoRequest(ident, seq_cnt, payload) ==
    [ident |-> ident, seq_cnt |-> seq_cnt, payload |-> payload]

EchoReply(ident, seq_cnt, payload) ==
    [kind |-> "Ok", ident |-> ident, seq_cnt |-> seq_cnt, payload |-> payload]

Err(msg) == [kind |-> "Err", msg |-> msg]

\* buffer.chunks(2): the k-th 16-bit big-endian word, an odd trailing byte
\* being the high byte of a word whose low byte is zero
Word(buf, k) ==
    buf[2 * k - 1] * 256 + (IF 2 * k <= Len(buf) THEN buf[2 * k] ELSE 0)

\* the u32 sum of the first n words.  The wrapping_add cannot wrap: a buffer
\* would need more than 65536 words.
RECURSIVE SumWords(_, _)
SumWords(buf, n) == IF n = 0 THEN 0 ELSE SumWords(buf, n - 1) + Word(buf, n)

\* while (sum >> 16) > 0 { sum = (sum & 0xffff) + (sum >> 16) }
RECURSIVE Fold(_)
Fold(sum) ==
    IF sum \div 65536 > 0 THEN Fold((sum % 65536) + (sum \div 65536)) ELSE sum

\* write_checksum: sums every word of the buffer, bytes 2-3 as they are
\* included, and stores !sum as u16 big-endian at offsets 2 and 3
write_checksum(buf) ==
    LET sum == 65535 - Fold(SumWords(buf, (Len(buf) + 1) \div 2))
    IN [buf EXCEPT ![3] = sum \div 256, ![4] = sum % 256]

\* an encode that stores the identifier and the sequence number low byte
\* first
encode_le(req, P, buf) ==
    IF Len(buf) < ICMP_HEADER_SIZE + Len(req.payload)
    THEN Panic
    ELSE write_checksum(
           [i \in 1..Len(buf) |->
              CASE i = 1 -> P.ECHO_REQUEST_TYPE
                [] i = 2 -> P.ECHO_REQUEST_CODE
                [] i = 5 -> req.ident % 256
                [] i = 6 -> (req.ident \div 256) % 256
                [] i = 7 -> req.seq_cnt % 256
                [] i = 8 -> (req.seq_cnt \div 256) % 256
                [] i > 8 /\ i <= 8 + Len(req.payload) -> req.payload[i - 8]
                [] OTHER -> buf[i]])

\* an encode that takes only a buffer of exactly header plus payload bytes
encode_exact(req, P, buf) ==
    IF Len(buf) # ICMP_HEADER_SIZE + Len(req.payload)
    THEN Panic
    ELSE write_checksum(
           [i \in 1..Len(buf) |->
              CASE i = 1 -> P.ECHO_REQUEST_TYPE
                [] i = 2 -> P.ECHO_REQUEST_CODE
                [] i = 5 -> (req.ident \div 256) % 256
                [] i = 6 -> req.ident % 256
                [] i = 7 -> (req.seq_cnt \div 256) % 256
                [] i = 8 -> req.seq_cnt % 256
                [] i > 8 /\ i <= 8 + Len(req.payload) -> req.payload[i - 8]
                [] OTHER -> buf[i]])

\* EchoRequest::encode.  Indexing a buffer shorter than the header panics,
\* and so does write_all(..).unwrap() when the payload does not fit.
encode(req, P, buf) ==
    IF Len(buf) < ICMP_HEADER_SIZE + Len(req.payload)
    THEN Panic
    ELSE write_checksum(
           [i \in 1..Len(buf) |->
              CASE i = 1 -> P.ECHO_REQUEST_TYPE
                [] i = 2 -> P.ECHO_REQUEST_CODE
                [] i = 5 -> (req.ident \div 256) % 256
                [] i = 6 -> req.ident % 256
                [] i = 7 -> (req.seq_cnt \div 256) % 256
                [] i = 8 -> req.seq_cnt % 256
                [] i > 8 /\ i <= 8 + Len(req.payload) -> req.payload[i - 8]
                [] OTHER -> buf[i]])

\* EchoReply::decode
decode(P, buf) ==
    IF Len(buf) < ICMP_HEADER_SIZE
    THEN Err("Invalid size")
    ELSE IF buf[1] # P.ECHO_REPLY_TYPE /\ buf[2] # P.ECHO_REPLY_CODE
    THEN Err("Invalid Packet")
    ELSE EchoReply(buf[5] * 256 + buf[6], buf[7] * 256 + buf[8],
                   SubSeq(buf, ICMP_HEADER_SIZE + 1, Len(buf)))

MINIMUM_PACKET_SIZE == 20

\* IpV4Protocol::decode
IpV4Protocol_decode(data) == IF data = 1 THEN [kind |-> "Icmp"] ELSE None

IpV4Packet(protocol, data) ==
    [kind |-> "Ok", protocol |-> protocol, data |-> data]

\* a decode that looks at the protocol byte before the version
IpV4Packet_decode_protocol_first(data) ==
    IF Len(data) < MINIMUM_PACKET_SIZE
    THEN Err("Too Small Header")
    ELSE IF IpV4Protocol_decode(data[10]) = None
    THEN Err("Unknown Protocol")
    ELSE IF data[1] \div 16 # 4
    THEN Err("Invalid Version")
    ELSE IF Len(data) < 4 * (data[1] % 16)
    THEN Err("Invalid Header Size")
    ELSE IpV4Packet(IpV4Protocol_decode(data[10]),
                    SubSeq(data, 4 * (data[1] % 16) + 1, Len(data)))

\* a decode that strips the 20 bytes of the fixed header whatever the
\* header-length nibble says
IpV4Packet_decode_fixed_header(data) ==
    IF Len(data) < MINIMUM_PACKET_SIZE
    THEN Err("Too Small Header")
    ELSE IF data[1] \div 16 # 4
    THEN Err("Invalid Version")
    ELSE IF Len(data) < 4 * (data[1] % 16)
    THEN Err("Invalid Header Size")
    ELSE IF IpV4Protocol_decode(data[10]) = None
    THEN Err("Unknown Protocol")
    ELSE IpV4Packet(IpV4Protocol_decode(data[10]),
                    SubSeq(data, MINIMUM_PACKET_SIZE + 1, Len(data)))

\* IpV4Packet::decode
IpV4Packet_decode(data) ==
    IF Len(data) < MINIMUM_PACKET_SIZE
    THEN Err("Too Small Header")
    ELSE LET byte0 == data[1]
             version == byte0 \div 16              \* (byte0 & 0xf0) >> 4
             header_size == 4 * (byte0 % 16)       \* 4 * (byte0 & 0x0f)
         IN IF version # 4
            THEN Err("Invalid Version")
            ELSE IF Len(data) < header_size
            THEN Err("Invalid Header Size")
            ELSE IF IpV4Protocol_decode(data[10]) = None
            THEN Err("Unknown Protocol")
            ELSE IpV4Packet(IpV4Protocol_decode(data[10]),
                            SubSeq(data, header_size + 1, Len(data)))

\* the datagrams tried: every length up to MaxDatagram; byte 0 an ICMP type
\* or an IP version and header-length byte, byte 1 an ICMP code, byte 9 an
\* IP protocol number, every other byte set by its position
Byte0Samples == {0, 5, 8, 64, 68, 69, 70, 79, 101, 111, 128, 129}

Byte1Samples == {0, 1}

Byte9Samples == {1, 6}

FillSamples == {0, 200}

ReceivedBuffers ==
    {[i \in 1..n |-> CASE i = 1 -> b0
                       [] i = 2 -> b1
                       [] i = 10 -> b9
                       [] OTHER -> (fill + 37 * i) % 256] :
        n \in 0..MaxDatagram, b0 \in Byte0Samples, b1 \in Byte1Samples,
        b9 \in Byte9Samples, fill \in FillSamples}

\* the identifiers and sequence numbers tried: both bytes zero, one byte
\* zero, both set, all ones
U16Samples == {0, 1, 255, 256, 43981, 65535}

\* the payload bytes and the bytes a destination buffer holds beforehand
ByteSamples == {0, 90, 255}

Payloads ==
    UNION {[1..n -> ByteSamples] : n \in 0..MaxPayload}

\* request.encode::<P>(&mut buffer)
EncodeRequest ==
    /\ codec_pc = "new"
    /\ buffer' = encode(request, proto, buffer)
    /\ codec_pc' = IF buffer' = Panic THEN "panicked" ELSE "encoded"
    /\ UNCHANGED <<proto, request, reply, packet>>
    /\ UNCHANGED notCodec

\* the peer answers: the packet comes back with the type and code of an echo
\* reply in bytes 0 and 1
TurnIntoReply ==
    /\ codec_pc = "encoded"
    /\ buffer' = [buffer EXCEPT ![1] = proto.ECHO_REPLY_TYPE,
                                ![2] = proto.ECHO_REPLY_CODE]
    /\ codec_pc' = "reply"
    /\ UNCHANGED <<proto, request, reply, packet>>
    /\ UNCHANGED notCodec

\* EchoReply::decode::<P>(&buffer)
DecodeReply ==
    /\ codec_pc \in {"reply", "received"}
    /\ reply' = decode(proto, buffer)
    /\ codec_pc' = "decoded"
    /\ UNCHANGED <<proto, request, buffer, packet>>
    /\ UNCHANGED notCodec

\* IpV4Packet::decode(&buffer[..amt])
DecodeIp ==
    /\ codec_pc = "received"
    /\ packet' = IpV4Packet_decode(buffer)
    /\ codec_pc' = "stripped"
    /\ UNCHANGED <<proto, request, buffer, reply>>
    /\ UNCHANGED notCodec

CodecIdle ==
    /\ codec_pc = "idle"
    /\ proto = IcmpV4
    /\ request = EchoRequest(0, 0, <<>>)
    /\ buffer = <<>>
    /\ reply = None
    /\ packet = None

\* a request and a destination buffer of exactly header plus payload bytes,
\* holding whatever it held before
CodecInit ==
    /\ codec_pc = "new"
    /\ proto \in {IcmpV4, IcmpV6}
    /\ \E ident \in U16Samples, seq_cnt \in U16Samples, payload \in Payloads :
          /\ request = EchoRequest(ident, seq_cnt, payload)
          /\ \E prior \in ByteSamples :
                buffer = [i \in 1..(ICMP_HEADER_SIZE + Len(payload)) |-> prior]
    /\ reply = None
    /\ packet = None

\* a request and a destination buffer of any length from none to one byte
\* more than header plus the longest payload, holding whatever it held before
BufferLens == 0..(ICMP_HEADER_SIZE + MaxPayload + 1)

EncodeInit ==
    /\ codec_pc = "new"
    /\ proto \in {IcmpV4, IcmpV6}
    /\ \E ident \in U16Samples, seq_cnt \in U16Samples, payload \in Payloads :
          request = EchoRequest(ident, seq_cnt, payload)
    /\ \E n \in BufferLens, prior \in ByteSamples :
          buffer = [i \in 1..n |-> prior]
    /\ reply = None
    /\ packet = None

\* socket.read has filled the buffer with a datagram of any content
ReceiveInit ==
    /\ codec_pc = "received"
    /\ proto \in {IcmpV4, IcmpV6}
    /\ request = EchoRequest(0, 0, <<>>)
    /\ buffer \in ReceivedBuffers
    /\ reply = None
    /\ packet = None

CodecNext ==
    \/ EncodeRequest
    \/ TurnIntoReply
    \/ DecodeReply

(***************************************************************************)
(* Targets (pinger/src/target.rs)                                          *)
(***************************************************************************)
\* A string is the sequence of its characters.
HexDigits == Digits \cup {"a", "b", "c", "d", "e", "f"}

HexVal(c) ==
    CASE c \in Digits -> DigitVal(c)
      [] c = "a" -> 10 [] c = "b" -> 11 [] c = "c" -> 12
      [] c = "d" -> 13 [] c = "e" -> 14 [] c = "f" -> 15

RECURSIVE parse_hex(_)
parse_hex(ds) ==
    IF Len(ds) = 0 THEN 0
    ELSE 16 * parse_hex(SubSeq(ds, 1, Len(ds) - 1)) + HexVal(ds[Len(ds)])

\* s.split(sep): the parts between the separators, empty parts kept
RECURSIVE Split(_, _)
Split(s, sep) ==
    IF \A i \in 1..Len(s) : s[i] # sep THEN <<s>>
    ELSE LET at == CHOOSE i \in 1..Len(s) :
                       s[i] = sep /\ \A j \in 1..(i - 1) : s[j] # sep
         IN <<SubSeq(s, 1, at - 1)>> \o Split(SubSeq(s, at + 1, Len(s)), sep)

IpAddrV4(octets) == [kind |-> "IpAddr", family |-> "V4", parts |-> octets]
IpAddrV6(segments) == [kind |-> "IpAddr", family |-> "V6", parts |-> segments]

\* a decimal octet: one to three digits, no leading zero, at most 255
IsOctet(t) ==
    /\ Len(t) \in 1..3
    /\ \A i \in 1..Len(t) : t[i] \in Digits
    /\ Len(t) > 1 => t[1] # "0"
    /\ parse_u64(t) <= 255

\* value.parse::<Ipv4Addr>(): four octets separated by dots
parse_Ipv4Addr(value) ==
    LET parts == Split(value, ".")
    IN IF Len(parts) = 4 /\ \A i \in 1..4 : IsOctet(parts[i])
       THEN IpAddrV4([i \in 1..4 |-> parse_u64(parts[i])])
       ELSE None

\* a 16-bit segment: one to four hexadecimal digits
IsSegment(t) == Len(t) \in 1..4 /\ \A i \in 1..Len(t) : t[i] \in HexDigits

\* the parts between the colons, the two empty parts a leading or trailing
\* "::" gives taken for one
Segments(value) ==
    LET parts == Split(value, ":")
        n == Len(parts)
        from == IF n >= 2 /\ parts[1] = <<>> /\ parts[2] = <<>> THEN 2 ELSE 1
        to == IF n - from >= 1 /\ parts[n] = <<>> /\ parts[n - 1] = <<>>
              THEN n - 1 ELSE n
    IN SubSeq(parts, from, to)

\* the string is empty, or begins or ends with a colon that is not part of
\* a "::"
LoneColon(parts) ==
    LET n == Len(parts)
    IN \/ parts[1] = <<>> /\ (n < 2 \/ parts[2] # <<>>)
       \/ parts[n] = <<>> /\ (n < 2 \/ parts[n - 1] # <<>>)

\* value.parse::<Ipv6Addr>(): eight segments, or fewer with one "::" that
\* stands for the missing zero segments (addresses with an embedded IPv4
\* tail or a zone are not among the strings looked at)
parse_Ipv6Addr(value) ==
    LET segs == Segments(value)
        gaps == {i \in 1..Len(segs) : segs[i] = <<>>}
    IN IF /\ ~LoneColon(Split(value, ":"))
          /\ \A i \in 1..Len(segs) : i \notin gaps => IsSegment(segs[i])
          /\ \/ gaps = {} /\ Len(segs) = 8
             \/ Cardinality(gaps) = 1 /\ Len(segs) <= 8
       THEN IF gaps = {}
            THEN IpAddrV6([i \in 1..8 |-> parse_hex(segs[i])])
            ELSE LET g == CHOOSE i \in gaps : TRUE
                     zeros == 8 - (Len(segs) - 1)
                 IN IpAddrV6([i \in 1..8 |->
                       IF i < g THEN parse_hex(segs[i])
                       ELSE IF i < g + zeros THEN 0
                       ELSE parse_hex(segs[i - zeros + 1])])
       ELSE None

\* value.parse::<IpAddr>(): an IPv4 literal or an IPv6 literal
parse_IpAddr(value) ==
    IF parse_Ipv4Addr(value) # None THEN parse_Ipv4Addr(value)
    ELSE parse_Ipv6Addr(value)

\* enum Target
IP(ip) == [kind |-> "IP", ip |-> ip]
Hostname(domain, version) ==
    [kind |-> "Hostname", domain |-> domain, version |-> version]

\* enum IPVersion
IPVersion == {"V4", "V6", "Any"}

\* a target construction that tries a literal of either family first
new_literal_first(value, version) ==
    IF parse_IpAddr(value) # None THEN IP(parse_IpAddr(value))
    ELSE Hostname(value, version)

\* a new_ipv4 that takes a literal of either family
new_ipv4_either(value) == new_literal_first(value, "V4")

new_any(value) ==
    IF parse_IpAddr(value) # None THEN IP(parse_IpAddr(value))
    ELSE Hostname(value, "Any")

new_ipv4(value) ==
    IF parse_Ipv4Addr(value) # None THEN IP(parse_Ipv4Addr(value))
    ELSE Hostname(value, "V4")

new_ipv6(value) ==
    IF parse_Ipv6Addr(value) # None THEN IP(parse_Ipv6Addr(value))
    ELSE Hostname(value, "V6")

\* the strings looked at: dotted strings of three to five parts, strings
\* with colons, names and the empty string
DottedParts == {<<"1">>, <<"2", "5", "5">>, <<"2", "5", "6">>}

RECURSIVE Dotted(_)
Dotted(parts) ==
    IF Len(parts) = 1 THEN parts[1]
    ELSE parts[1] \o <<".">> \o Dotted(Tail(parts))

TargetStrings ==
    {Dotted(ps) : ps \in UNION {[1..n -> DottedParts] : n \in 3..5}}
    \cup {<<":", ":", "1">>,
          <<":", ":">>,
          <<"2", "0", "0", "1", ":", "d", "b", "8", ":", ":", "1">>,
          <<"1", ":", "2", ":", "3", ":", "4", ":", "5", ":", "6", ":", "7", ":", "8">>,
          <<"1", ":", "2", ":", "3", ":", "4", ":", "5", ":", "6", ":", "7">>,
          <<"1", ":", ":", "2", ":", ":", "3">>,
          <<"f", "e", "8", "0", ":", ":", "g", "1">>,
          <<":", "1">>,
          <<"1", "2", "3", "4", "5", ":", ":">>,
          <<":", ":", "f", "f", "f", "f">>}
    \cup {<<"e", "x", "a", "m", "p", "l", "e", ".", "c", "o", "m">>,
          <<"l", "o", "c", "a", "l", "h", "o", "s", "t">>,
          <<"a">>,
          <<>>}

\* the call returns
Return(value) ==
    /\ call_result' = value
    /\ call_pc' = "returned"
    /\ UNCHANGED <<callee, args>>
    /\ UNCHANGED notCall

\* the constructor of the family preference is called
NewAny ==
    /\ call_pc = "called"
    /\ callee = "Target::new"
    /\ args.version = "Any"
    /\ Return(new_any(args.value))

NewIpv4 ==
    /\ call_pc = "called"
    /\ callee = "Target::new"
    /\ args.version = "V4"
    /\ Return(new_ipv4(args.value))

NewIpv6 ==
    /\ call_pc = "called"
    /\ callee = "Target::new"
    /\ args.version = "V6"
    /\ Return(new_ipv6(args.value))

TargetNext == NewAny \/ NewIpv4 \/ NewIpv6

CallIdle ==
    /\ call_pc = "idle"
    /\ callee = "none"
    /\ args = None
    /\ call_result = None

TargetInit ==
    /\ call_pc = "called"
    /\ callee = "Target::new"
    /\ args \in [value : TargetStrings, version : IPVersion]
    /\ call_result = None

(***************************************************************************)
(* Resolution of a host name (gping/src/main.rs, get_host_ipaddr)          *)
(***************************************************************************)
MaxAddrs == 3

Ok(value) == [kind |-> "Ok", value |-> value]

\* the addresses a resolver may list: two of each family
Addrs ==
    {[family |-> f, host |-> h] : f \in {"V4", "V6"}, h \in {"a", "b"}}

\* what (host, 80).to_socket_addrs() gives: an error, or the addresses in
\* the resolver's order, none included
Resolutions ==
    {Err("Resolving")}
    \cup {Ok(as) : as \in UNION {[1..n -> Addrs] : n \in 0..MaxAddrs}}

\* a find that takes the first address whatever its family
find_first(addrs, family) == IF addrs = <<>> THEN None ELSE addrs[1]

\* ipaddr.iter().find(|ip| matches!(ip, IpAddr::V4(_))), and V6 likewise
find(addrs, family) ==
    IF \E i \in 1..Len(addrs) : addrs[i].family = family
    THEN addrs[CHOOSE i \in 1..Len(addrs) :
                  /\ addrs[i].family = family
                  /\ \A j \in 1..(i - 1) : addrs[j].family # family]
    ELSE None

\* get_host_ipaddr.  idna says how the host name fares before the lookup:
\* "ascii" (taken as it is), "encoded" (domain_to_ascii succeeded) or
\* "failed"
get_host_ipaddr(idna, resolved, force_ipv4, force_ipv6) ==
    IF idna = "failed" THEN Err("Could not encode host to punycode")
    ELSE IF resolved.kind = "Err" THEN Err("Resolving")
    ELSE IF resolved.value = <<>> THEN Err("Could not resolve hostname")
    ELSE IF force_ipv4
    THEN IF find(resolved.value, "V4") = None
         THEN Err("Could not resolve to IPv4")
         ELSE Ok(find(resolved.value, "V4"))
    ELSE IF force_ipv6
    THEN IF find(resolved.value, "V6") = None
         THEN Err("Could not resolve to IPv6")
         ELSE Ok(find(resolved.value, "V6"))
    ELSE Ok(resolved.value[1])

GetHostIpaddr ==
    /\ call_pc = "called"
    /\ callee = "get_host_ipaddr"
    /\ Return(get_host_ipaddr(args.idna, args.resolved, args.force_ipv4,
                              args.force_ipv6))

\* the options -4 and -6 exclude each other (conflicts_with)
ResolveInit ==
    /\ call_pc = "called"
    /\ callee = "get_host_ipaddr"
    /\ args \in {a \in [idna : {"ascii", "encoded", "failed"},
                        resolved : Resolutions,
                        force_ipv4 : BOOLEAN,
                        force_ipv6 : BOOLEAN] :
                    ~(a.force_ipv4 /\ a.force_ipv6)}
    /\ call_result = None

(***************************************************************************)
(* AWS regions (gping/src/region_map.rs, try_host_from_aws_region)         *)
(***************************************************************************)
LowerCase == <<"a", "b", "c", "d", "e", "f", "g", "h", "i", "j", "k", "l", "m", "n", "o", "p", "q", "r", "s", "t", "u", "v", "w", "x", "y", "z">>
UpperCase == <<"A", "B", "C", "D", "E", "F", "G", "H", "I", "J", "K", "L", "M", "N", "O", "P", "Q", "R", "S", "T", "U", "V", "W", "X", "Y", "Z">>

\* char::to_lowercase and char::to_uppercase on the ASCII letters
to_lower(c) ==
    IF \E i \in 1..26 : UpperCase[i] = c
    THEN LowerCase[CHOOSE i \in 1..26 : UpperCase[i] = c]
    ELSE c
to_upper(c) ==
    IF \E i \in 1..26 : LowerCase[i] = c
    THEN UpperCase[CHOOSE i \in 1..26 : LowerCase[i] = c]
    ELSE c

to_lowercase(q) == [i \in 1..Len(q) |-> to_lower(q[i])]
to_uppercase(q) == [i \in 1..Len(q) |-> to_upper(q[i])]

\* str::replace of one character by another
replace(q, from, to) == [i \in 1..Len(q) |-> IF q[i] = from THEN to ELSE q[i]]

aws == <<"a", "w", "s", ":">>

\* the HashMap of the function, key by key as the source lists them
region_map ==
    {
      [key |-> aws \o <<"v", "i", "r", "g", "i", "n", "i", "a">>,
       region |-> <<"u", "s", "-", "e", "a", "s", "t", "-", "1">>],
      [key |-> aws \o <<"o", "h", "i", "o">>,
       region |-> <<"u", "s", "-", "e", "a", "s", "t", "-", "2">>],
      [key |-> aws \o <<"c", "a", "l", "i", "f", "o", "r", "n", "i", "a">>,
       region |-> <<"u", "s", "-", "w", "e", "s", "t", "-", "1">>],
      [key |-> aws \o <<"o", "r", "e", "g", "o", "n">>,
       region |-> <<"u", "s", "-", "w", "e", "s", "t", "-", "2">>],
      [key |-> aws \o <<"c", "e", "n", "t", "r", "a", "l">>,
       region |-> <<"c", "a", "-", "c", "e", "n", "t", "r", "a", "l", "-", "1">>],
      [key |-> aws \o <<"i", "r", "e", "l", "a", "n", "d">>,
       region |-> <<"e", "u", "-", "w", "e", "s", "t", "-", "1">>],
      [key |-> aws \o <<"l", "o", "n", "d", "o", "n">>,
       region |-> <<"e", "u", "-", "w", "e", "s", "t", "-", "2">>],
      [key |-> aws \o <<"p", "a", "r", "i", "s">>,
       region |-> <<"e", "u", "-", "w", "e", "s", "t", "-", "3">>],
      [key |-> aws \o <<"f", "r", "a", "n", "k", "f", "u", "r", "t">>,
       region |-> <<"e", "u", "-", "c", "e", "n", "t", "r", "a", "l", "-", "1">>],
      [key |-> aws \o <<"m", "i", "l", "a", "n">>,
       region |-> <<"e", "u", "-", "s", "o", "u", "t", "h", "-", "1">>],
      [key |-> aws \o <<"s", "t", "o", "c", "k", "h", "o", "l", "m">>,
       region |-> <<"e", "u", "-", "n", "o", "r", "t", "h", "-", "1">>],
      [key |-> aws \o <<"b", "a", "h", "r", "a", "i", "n">>,
       region |-> <<"m", "e", "-", "s", "o", "u", "t", "h", "-", "1">>],
      [key |-> aws \o <<"u", "a", "e">>,
       region |-> <<"m", "e", "-", "c", "e", "n", "t", "r", "a", "l", "-", "1">>],
      [key |-> aws \o <<"c", "a", "p", "e", "_", "t", "o", "w", "n">>,
       region |-> <<"a", "f", "-", "s", "o", "u", "t", "h", "-", "1">>],
      [key |-> aws \o <<"h", "o", "n", "g", "_", "k", "o", "n", "g">>,
       region |-> <<"a", "p", "-", "e", "a", "s", "t", "-", "1">>],
      [key |-> aws \o <<"j", "a", "k", "a", "r", "t", "a">>,
       region |-> <<"a", "p", "-", "s", "o", "u", "t", "h", "e", "a", "s", "t", "-", "3">>],
      [key |-> aws \o <<"m", "u", "m", "b", "a", "i">>,
       region |-> <<"a", "p", "-", "s", "o", "u", "t", "h", "-", "1">>],
      [key |-> aws \o <<"o", "s", "a", "k", "a">>,
       region |-> <<"a", "p", "-", "n", "o", "r", "t", "h", "e", "a", "s", "t", "-", "3">>],
      [key |-> aws \o <<"s", "e", "o", "u", "l">>,
       region |-> <<"a", "p", "-", "n", "o", "r", "t", "h", "e", "a", "s", "t", "-", "2">>],
      [key |-> aws \o <<"s", "i", "n", "g", "a", "p", "o", "r", "e">>,
       region |-> <<"a", "p", "-", "s", "o", "u", "t", "h", "e", "a", "s", "t", "-", "1">>],
      [key |-> aws \o <<"s", "y", "d", "n", "e", "y">>,
       region |-> <<"a", "p", "-", "s", "o", "u", "t", "h", "e", "a", "s", "t", "-", "2">>],
      [key |-> aws \o <<"t", "o", "k", "y", "o">>,
       region |-> <<"a", "p", "-", "n", "o", "r", "t", "h", "e", "a", "s", "t", "-", "1">>],
      [key |-> aws \o <<"s", "a", "o", "_", "p", "a", "u", "l", "o">>,
       region |-> <<"s", "a", "-", "e", "a", "s", "t", "-", "1">>],
      [key |-> aws \o <<"b", "e", "i", "j", "i", "n", "g">>,
       region |-> <<"c", "n", "-", "n", "o", "r", "t", "h", "-", "1">>],
      [key |-> aws \o <<"n", "i", "n", "g", "x", "i", "a">>,
       region |-> <<"c", "n", "-", "n", "o", "r", "t", "h", "w", "e", "s", "t", "-", "1">>],
      [key |-> aws \o <<"u", "s", "-", "e", "a", "s", "t", "-", "1">>,
       region |-> <<"u", "s", "-", "e", "a", "s", "t", "-", "1">>],
      [key |-> aws \o <<"u", "s", "-", "e", "a", "s", "t", "-", "2">>,
       region |-> <<"u", "s", "-", "e", "a", "s", "t", "-", "2">>],
      [key |-> aws \o <<"u", "s", "-", "w", "e", "s", "t", "-", "1">>,
       region |-> <<"u", "s", "-", "w", "e", "s", "t", "-", "1">>],
      [key |-> aws \o <<"u", "s", "-", "w", "e", "s", "t", "-", "2">>,
       region |-> <<"u", "s", "-", "w", "e", "s", "t", "-", "2">>],
      [key |-> aws \o <<"c", "a", "-", "c", "e", "n", "t", "r", "a", "l", "-", "1">>,
       region |-> <<"c", "a", "-", "c", "e", "n", "t", "r", "a", "l", "-", "1">>],
      [key |-> aws \o <<"e", "u", "-", "w", "e", "s", "t", "-", "1">>,
       region |-> <<"e", "u", "-", "w", "e", "s", "t", "-", "1">>],
      [key |-> aws \o <<"e", "u", "-", "w", "e", "s", "t", "-", "2">>,
       region |-> <<"e", "u", "-", "w", "e", "s", "t", "-", "2">>],
      [key |-> aws \o <<"e", "u", "-", "w", "e", "s", "t", "-", "3">>,
       region |-> <<"e", "u", "-", "w", "e", "s", "t", "-", "3">>],
      [key |-> aws \o <<"e", "u", "-", "c", "e", "n", "t", "r", "a", "l", "-", "1">>,
       region |-> <<"e", "u", "-", "c", "e", "n", "t", "r", "a", "l", "-", "1">>],
      [key |-> aws \o <<"e", "u", "-", "s", "o", "u", "t", "h", "-", "1">>,
       region |-> <<"e", "u", "-", "s", "o", "u", "t", "h", "-", "1">>],
      [key |-> aws \o <<"e", "u", "-", "n", "o", "r", "t", "h", "-", "1">>,
       region |-> <<"e", "u", "-", "n", "o", "r", "t", "h", "-", "1">>],
      [key |-> aws \o <<"m", "e", "-", "s", "o", "u", "t", "h", "-", "1">>,
       region |-> <<"m", "e", "-", "s", "o", "u", "t", "h", "-", "1">>],
      [key |-> aws \o <<"m", "e", "-", "c", "e", "n", "t", "r", "a", "l", "-", "1">>,
       region |-> <<"m", "e", "-", "c", "e", "n", "t", "r", "a", "l", "-", "1">>],
      [key |-> aws \o <<"a", "f", "-", "s", "o", "u", "t", "h", "-", "1">>,
       region |-> <<"a", "f", "-", "s", "o", "u", "t", "h", "-", "1">>],
      [key |-> aws \o <<"a", "p", "-", "e", "a", "s", "t", "-", "1">>,
       region |-> <<"a", "p", "-", "e", "a", "s", "t", "-", "1">>],
      [key |-> aws \o <<"a", "p", "-", "s", "o", "u", "t", "h", "e", "a", "s", "t", "-", "3">>,
       region |-> <<"a", "p", "-", "s", "o", "u", "t", "h", "e", "a", "s", "t", "-", "3">>],
      [key |-> aws \o <<"a", "p", "-", "s", "o", "u", "t", "h", "-", "1">>,
       region |-> <<"a", "p", "-", "s", "o", "u", "t", "h", "-", "1">>],
      [key |-> aws \o <<"a", "p", "-", "n", "o", "r", "t", "h", "e", "a", "s", "t", "-", "3">>,
       region |-> <<"a", "p", "-", "n", "o", "r", "t", "h", "e", "a", "s", "t", "-", "3">>],
      [key |-> aws \o <<"p", "-", "n", "o", "r", "t", "h", "e", "a", "s", "t", "-", "2">>,
       region |-> <<"a", "p", "-", "n", "o", "r", "t", "h", "e", "a", "s", "t", "-", "2">>],
      [key |-> aws \o <<"a", "p", "-", "s", "o", "u", "t", "h", "e", "a", "s", "t", "-", "1">>,
       region |-> <<"a", "p", "-", "s", "o", "u", "t", "h", "e", "a", "s", "t", "-", "1">>],
      [key |-> aws \o <<"a", "p", "-", "s", "o", "u", "t", "h", "e", "a", "s", "t", "-", "2">>,
       region |-> <<"a", "p", "-", "s", "o", "u", "t", "h", "e", "a", "s", "t", "-", "2">>],
      [key |-> aws \o <<"a", "p", "-", "n", "o", "r", "t", "h", "e", "a", "s", "t", "-", "1">>,
       region |-> <<"a", "p", "-", "n", "o", "r", "t", "h", "e", "a", "s", "t", "-", "1">>],
      [key |-> aws \o <<"s", "a", "-", "e", "a", "s", "t", "-", "1">>,
       region |-> <<"s", "a", "-", "e", "a", "s", "t", "-", "1">>],
      [key |-> aws \o <<"c", "n", "-", "n", "o", "r", "t", "h", "-", "1">>,
       region |-> <<"c", "n", "-", "n", "o", "r", "t", "h", "-", "1">>],
      [key |-> aws \o <<"c", "n", "-", "n", "o", "r", "t", "h", "w", "e", "s", "t", "-", "1">>,
       region |-> <<"c", "n", "-", "n", "o", "r", "t", "h", "w", "e", "s", "t", "-", "1">>]
    }

\* region_map.get(key)
get(key) ==
    IF \E e \in region_map : e.key = key
    THEN (CHOOSE e \in region_map : e.key = key).region
    ELSE None

\* format!("ec2.{}.amazonaws.com", r)
Host(r) ==
    <<"e", "c", "2", ".">> \o r
    \o <<".", "a", "m", "a", "z", "o", "n", "a", "w", "s", ".", "c", "o", "m">>

AWSRegionNotFoundError(query) == [kind |-> "Err", query |-> query]

try_host_from_aws_region(query) ==
    LET region == get(to_lowercase(replace(query, " ", "_")))
    IN IF region = None THEN AWSRegionNotFoundError(query)
       ELSE Ok(Host(region))

\* the region codes the table maps to
RegionCodes == {e.region : e \in region_map}

\* the queries tried: every key and every "aws:" + region code, as written,
\* in capitals and with blanks for underscores, and queries that name
\* nothing
Queries ==
    LET named == {e.key : e \in region_map} \cup {aws \o r : r \in RegionCodes}
    IN named
       \cup {to_uppercase(q) : q \in named}
       \cup {replace(q, "_", " ") : q \in named}
       \cup {<<"A", "t", "l", "a", "n", "t", "i", "s">>,
             <<"a", "w", "s", ":", "a", "t", "l", "a", "n", "t", "i", "s">>,
             <<"a", "w", "s", ":", "S", "i", "n", "g", "a", "p", "o", "r", "e">>,
             aws,
             <<>>}

TryHostFromAwsRegion ==
    /\ call_pc = "called"
    /\ callee = "try_host_from_aws_region"
    /\ Return(try_host_from_aws_region(args.query))

RegionInit ==
    /\ call_pc = "called"
    /\ callee = "try_host_from_aws_region"
    /\ args \in [query : Queries]
    /\ call_result = None

(***************************************************************************)
(* FixedRingBuffer (src/ringbuffer.rs)                                      *)
(***************************************************************************)
MaxCap == 3
MaxPushes == 8

\* the elements pushed
Elems == {0, 1}

\* T::default() for the integers pushed
Default == 0

\* FixedRingBuffer::new(capacity).  Vec::with_capacity(n) reserves at least
\* n elements: exactly n or more.
FixedRingBuffer(c, reserved) ==
    [buf |-> <<>>, capacity |-> reserved, cap |-> c, head |-> 0]

\* self.buf.copy_within(from..len, 0) with from counted from 0
copy_within(b, from) ==
    [i \in 1..Len(b) |-> IF i <= Len(b) - from THEN b[from + i] ELSE b[i]]

\* self.buf.resize(n, Default::default())
resize(b, n) == [i \in 1..n |-> IF i <= Len(b) THEN b[i] ELSE Default]

\* a push that shifts from head on, not from head + 1
push_keep_head(rb, elem) ==
    LET shifted == IF Len(rb.buf) = rb.capacity
                   THEN [rb EXCEPT !.buf = resize(copy_within(rb.buf, rb.head),
                                                  rb.cap - 1),
                                   !.head = 0]
                   ELSE rb
        grown == [shifted EXCEPT !.buf = Append(shifted.buf, elem)]
    IN IF Len(grown.buf) > grown.cap
       THEN [grown EXCEPT !.head = grown.head + 1]
       ELSE grown

\* FixedRingBuffer::push.  In the shift, copy_within panics when its range
\* starts behind its end (head + 1 > len) and self.cap - 1 has no value for
\* a capacity of 0.
push(rb, elem) ==
    IF Len(rb.buf) = rb.capacity /\ (rb.head + 1 > Len(rb.buf) \/ rb.cap = 0)
    THEN Panic
    ELSE
    LET shifted == IF Len(rb.buf) = rb.capacity
                   THEN [rb EXCEPT !.buf = resize(copy_within(rb.buf,
                                                              rb.head + 1),
                                                  rb.cap - 1),
                                   !.head = 0]
                   ELSE rb
        grown == [shifted EXCEPT !.buf = Append(shifted.buf, elem)]
    IN IF Len(grown.buf) > grown.cap
       THEN [grown EXCEPT !.head = grown.head + 1]
       ELSE grown

\* FixedRingBuffer::as_slice, which iter() goes through
as_slice(rb) == SubSeq(rb.buf, rb.head + 1, Len(rb.buf))

\* FixedRingBuffer::len
len(rb) == Len(rb.buf) - rb.head

\* the buffer the variables hold
ringbuffer ==
    [buf |-> ring_buf, capacity |-> vec_capacity, cap |-> ring_cap,
     head |-> ring_head]

\* ringbuffer.push(elem): the buffer after the call, or the panic
Push ==
    /\ ring_pc = "ready"
    /\ Len(pushed) < MaxPushes
    /\ \E elem \in Elems :
          LET out == push(ringbuffer, elem)
          IN /\ pushed' = Append(pushed, elem)
             /\ IF out = Panic
                THEN /\ ring_pc' = "panicked"
                     /\ UNCHANGED <<ring_buf, ring_head>>
                ELSE /\ ring_pc' = "ready"
                     /\ ring_buf' = out.buf
                     /\ ring_head' = out.head
    /\ UNCHANGED <<vec_capacity, ring_cap>>
    /\ UNCHANGED notRing

RingIdle ==
    /\ ring_buf = <<>>
    /\ vec_capacity = 0
    /\ ring_cap = 0
    /\ ring_head = 0
    /\ pushed = <<>>
    /\ ring_pc = "idle"

\* FixedRingBuffer::new(c) for a capacity of 0 to MaxCap
RingInit ==
    /\ ring_pc = "ready"
    /\ ring_cap \in 0..MaxCap
    /\ vec_capacity \in {2 * ring_cap, 2 * ring_cap + 1}
    /\ ring_buf = FixedRingBuffer(ring_cap, vec_capacity).buf
    /\ ring_head = FixedRingBuffer(ring_cap, vec_capacity).head
    /\ pushed = <<>>

RingNext == Push

(***************************************************************************)
(* The raw ICMP worker's cycle with the outcomes of its socket calls       *)
(***************************************************************************)

\* Result of socket.send_to and of socket.read
SendResults == {"ok", "err"}
ReadResults == {"ok", "would_block", "err"}

\* a send phase that gives up the loop when send_to fails
CycleSendBreaks ==
    /\ raw_pc = "send"
    /\ \E due \in BOOLEAN :
          IF due /\ nsent < probe_limit
          THEN \E sent \in SendResults :
                  /\ send_result' = sent
                  /\ raw_pc' = IF sent = "err" THEN "exited" ELSE "recv"
                  /\ nsent' = nsent + 1
                  /\ in_flight_table' =
                        Evict(Insert(in_flight_table, TokenOf(nsent + 1),
                                     nsent + 1))
          ELSE /\ send_result' = "none"
               /\ raw_pc' = "recv"
               /\ UNCHANGED <<nsent, in_flight_table>>
    /\ UNCHANGED <<run, raw_chan, last_elapsed, overtakes, nrecv,
                   drop_pc, pipe_written, cap_effective, probe_limit>>
    /\ UNCHANGED <<read_result, notIo>>

\* the send phase: socket.send_to(&buffer, &dest.into()).ok() discards what
\* send_to returned; the token is recorded and the table evicted either way
CycleSend ==
    /\ raw_pc = "send"
    /\ raw_pc' = "recv"
    /\ \E due \in BOOLEAN :
          IF due /\ nsent < probe_limit
          THEN \E sent \in SendResults :
                  /\ send_result' = sent
                  /\ nsent' = nsent + 1
                  /\ in_flight_table' =
                        Evict(Insert(in_flight_table, TokenOf(nsent + 1),
                                     nsent + 1))
          ELSE /\ send_result' = "none"
               /\ UNCHANGED <<nsent, in_flight_table>>
    /\ UNCHANGED <<run, raw_chan, last_elapsed, overtakes, nrecv,
                   drop_pc, pipe_written, cap_effective, probe_limit>>
    /\ UNCHANGED <<read_result, notIo>>

\* the receive phase: `if let Ok(amt) = socket.read(&mut buffer)`; nothing is
\* done for Err, would-block or other
CycleRecv ==
    /\ raw_pc = "recv"
    /\ raw_pc' = "loop"
    /\ \E res \in ReadResults :
          /\ read_result' = res
          /\ IF res = "ok"
             THEN \E d \in {x \in Datagrams : x.kind # "would_block"} :
                     IF d.kind = "reply" /\ d.tok \in DOMAIN in_flight_table
                     THEN LET late == d.tok # Oldest(in_flight_table)
                              pong == [tok |-> d.tok,
                                       sent_at |-> in_flight_table[d.tok]]
                          IN /\ late => overtakes < MaxOvertakes
                             /\ overtakes' =
                                   IF late THEN overtakes + 1 ELSE overtakes
                             /\ in_flight_table' =
                                   Remove(in_flight_table, d.tok)
                             /\ raw_chan' = try_send(raw_chan, pong)
                             /\ last_elapsed' = nsent - in_flight_table[d.tok]
                     ELSE UNCHANGED <<in_flight_table, raw_chan, last_elapsed,
                                      overtakes>>
             ELSE UNCHANGED <<in_flight_table, raw_chan, last_elapsed,
                              overtakes>>
    /\ UNCHANGED <<run, nsent, nrecv, drop_pc, pipe_written, cap_effective,
                   probe_limit>>
    /\ UNCHANGED <<send_result, notIo>>

IoIdle ==
    /\ send_result = "none"
    /\ read_result = "none"

CycleNext ==
    \/ WorkerStart
    \/ LoopCheck
    \/ SelectReturn
    \/ CycleSend
    \/ CycleRecv
    \/ RawRecv
    \/ DropStore

(***************************************************************************)
(* The gping application: event loop, threads and plot data                *)
(***************************************************************************)
MaxHosts == 2
MaxResults == 3
MaxEvents == 1
MaxNow == 2
\* args.buffer, the seconds of samples a plot keeps
PlotBuffer == 1
DEFAULT_WINDOW_SIZE == 500

Hosts == 1..MaxHosts

\* Option<Duration>
Some(dur) == [kind |-> "Some", micros |-> dur]

\* f64 values of a sample
Micros(dur) == [kind |-> "f64", v |-> dur]
NaN == [kind |-> "NaN"]

\* u64 values of a histogram sample
Millis(dur) == [kind |-> "u64", v |-> dur \div 1000]
U64Max == [kind |-> "u64::MAX"]

\* enum Update and enum Event
UpdateResult(dur) == [kind |-> "Result", micros |-> dur]
UpdateTimeout == [kind |-> "Timeout"]
UpdateUnknown == [kind |-> "Unknown"]
UpdateTerminated(status) == [kind |-> "Terminated", status |-> status]
EventUpdate(host, update) ==
    [kind |-> "Update", host |-> host, update |-> update]
EventTerminate == [kind |-> "Terminate"]
EventToggleHistogram == [kind |-> "ToggleHistogram"]
EventRender == [kind |-> "Render"]

\* impl From<PingResult> for Update
into(r) ==
    CASE r.kind = "Pong" -> UpdateResult(r.ms * 1000 + r.ns \div 1000)
      [] r.kind = "Timeout" -> UpdateTimeout
      [] r.kind = "Unknown" -> UpdateUnknown
      [] r.kind = "PingExited" -> UpdateTerminated(r.status)

\* what a pinger hands to its forwarding thread
PingResults ==
    {Pong(1, 500000, "line"), Timeout("line"), Unknown("line"),
     PingExited(0, "")}

\* PlotData::update: push the sample, then drain the samples in front of the
\* last one older than the buffer
PlotData_update(data, item, now) ==
    LET value == IF item = None THEN NaN ELSE Micros(item.micros)
        longer == Append(data, [at |-> now, value |-> value])
        earliest_timestamp == now - PlotBuffer
        stale == {i \in 1..Len(longer) : longer[i].at < earliest_timestamp}
    IN IF stale = {}
       THEN longer
       ELSE LET last_idx == CHOOSE i \in stale : \A k \in stale : k <= i
            IN SubSeq(longer, last_idx, Len(longer))

\* self.samples.remove(0) while the window is exceeded
RECURSIVE roll(_)
roll(q) == IF Len(q) > DEFAULT_WINDOW_SIZE THEN roll(Tail(q)) ELSE q

\* HistogramState::add_sample
add_sample(q, item) ==
    roll(Append(q, IF item = None THEN U64Max ELSE Millis(item.micros)))

\* an update that gives the sample to every host
App_update_every_host(plots, q, host_idx, item, now) ==
    [data |-> [h \in DOMAIN plots |-> PlotData_update(plots[h], item, now)],
     samples |-> add_sample(q, item)]

\* App::update
App_update(plots, q, host_idx, item, now) ==
    [data |-> [plots EXCEPT ![host_idx] =
                  PlotData_update(plots[host_idx], item, now)],
     samples |-> add_sample(q, item)]

\* Instant::now() at a later update: the same reading, or one more than the
\* buffer later
Later(now) ==
    IF now + PlotBuffer + 1 <= MaxNow THEN now + PlotBuffer + 1 ELSE now

\* tx.send(event): the channel is unbounded; the model holds the events that
\* will still be read, at most MaxEvents of them
CanSend == main_pc = "loop" => Len(rx_events) < MaxEvents
Sent(event) == IF main_pc = "loop" THEN Append(rx_events, event) ELSE rx_events

\* start_ping_thread: `while !kill_event.load(..)`
FwdCheck(h) ==
    /\ ~cmd_mode
    /\ thread_pc[h] = "check"
    /\ thread_pc' = [thread_pc EXCEPT ![h] = IF killed THEN "done" ELSE "recv"]
    /\ UNCHANGED <<cmd_mode, app_data, samples, enabled, app_now, rx_events,
                   killed, main_pc, njoined, render_pc, key_pc, stream,
                   ndelivered>>
    /\ UNCHANGED notApp

\* stream.recv() returns Ok(v): the pinger has delivered a result
FwdRecv(h) ==
    /\ ~cmd_mode
    /\ thread_pc[h] = "recv"
    /\ stream[h] = "open"
    /\ ndelivered < MaxResults
    /\ CanSend
    /\ \E v \in PingResults :
          /\ rx_events' = Sent(EventUpdate(h, into(v)))
          /\ stream' = [stream EXCEPT ![h] = IF v.kind = "PingExited"
                                               THEN "closed" ELSE "open"]
    /\ ndelivered' = ndelivered + 1
    /\ thread_pc' = [thread_pc EXCEPT ![h] = "check"]
    /\ UNCHANGED <<cmd_mode, app_data, samples, enabled, app_now, killed,
                   main_pc, njoined, render_pc, key_pc>>
    /\ UNCHANGED notApp

\* stream.recv() returns Err: the pinger's worker has ended
FwdClosed(h) ==
    /\ ~cmd_mode
    /\ thread_pc[h] = "recv"
    /\ stream[h] = "closed"
    /\ thread_pc' = [thread_pc EXCEPT ![h] = "done"]
    /\ UNCHANGED <<cmd_mode, app_data, samples, enabled, app_now, rx_events,
                   killed, main_pc, njoined, render_pc, key_pc, stream,
                   ndelivered>>
    /\ UNCHANGED notApp

\* start_cmd_thread: `while !kill_event.load(..)`, then spawn the command
CmdCheck(h) ==
    /\ cmd_mode
    /\ thread_pc[h] = "check"
    /\ thread_pc' = [thread_pc EXCEPT ![h] = IF killed THEN "done" ELSE "wait"]
    /\ UNCHANGED <<cmd_mode, app_data, samples, enabled, app_now, rx_events,
                   killed, main_pc, njoined, render_pc, key_pc, stream,
                   ndelivered>>
    /\ UNCHANGED notApp

\* child.wait() returns: the command has ended
CmdWait(h) ==
    /\ cmd_mode
    /\ thread_pc[h] = "wait"
    /\ killed \/ ndelivered < MaxResults
    /\ CanSend
    /\ \E success \in BOOLEAN :
          rx_events' = Sent(EventUpdate(h, IF success THEN UpdateResult(1500)
                                                     ELSE UpdateTimeout))
    /\ ndelivered' = IF ndelivered < MaxResults THEN ndelivered + 1
                                                ELSE ndelivered
    /\ thread_pc' = [thread_pc EXCEPT ![h] = "sleep"]
    /\ UNCHANGED <<cmd_mode, app_data, samples, enabled, app_now, killed,
                   main_pc, njoined, render_pc, key_pc, stream>>
    /\ UNCHANGED notApp

\* sleep(interval) returns
CmdSleep(h) ==
    /\ cmd_mode
    /\ thread_pc[h] = "sleep"
    /\ thread_pc' = [thread_pc EXCEPT ![h] = "check"]
    /\ UNCHANGED <<cmd_mode, app_data, samples, enabled, app_now, rx_events,
                   killed, main_pc, njoined, render_pc, key_pc, stream,
                   ndelivered>>
    /\ UNCHANGED notApp

\* start_render_thread: `while !kill_event.load(..)`
RenderCheck ==
    /\ render_pc = "check"
    /\ render_pc' = IF killed THEN "done" ELSE "sleep"
    /\ UNCHANGED <<cmd_mode, app_data, samples, enabled, app_now, rx_events,
                   killed, main_pc, njoined, thread_pc, key_pc, stream,
                   ndelivered>>
    /\ UNCHANGED notApp

\* sleep(250 ms); cmd_tx.send(Event::Render)
RenderSend ==
    /\ render_pc = "sleep"
    /\ CanSend
    /\ rx_events' = Sent(EventRender)
    /\ render_pc' = "check"
    /\ UNCHANGED <<cmd_mode, app_data, samples, enabled, app_now, killed,
                   main_pc, njoined, thread_pc, key_pc, stream, ndelivered>>
    /\ UNCHANGED notApp

\* the keyboard thread reads `q`, Esc or Ctrl-C: Event::Terminate and break
KeyQuit ==
    /\ key_pc = "poll"
    /\ CanSend
    /\ rx_events' = Sent(EventTerminate)
    /\ key_pc' = "done"
    /\ UNCHANGED <<cmd_mode, app_data, samples, enabled, app_now, killed,
                   main_pc, njoined, thread_pc, render_pc, stream,
                   ndelivered>>
    /\ UNCHANGED notApp

\* the keyboard thread reads `h`
KeyToggle ==
    /\ key_pc = "poll"
    /\ main_pc = "loop"
    /\ CanSend
    /\ rx_events' = Sent(EventToggleHistogram)
    /\ UNCHANGED <<cmd_mode, app_data, samples, enabled, app_now, killed,
                   main_pc, njoined, thread_pc, render_pc, key_pc, stream,
                   ndelivered>>
    /\ UNCHANGED notApp

\* one turn of main's `loop { match rx.recv()? { .. } }`; a break is followed
\* by killed.store(true, Ordering::Relaxed)
MainRecv ==
    /\ main_pc = "loop"
    /\ rx_events # <<>>
    /\ rx_events' = Tail(rx_events)
    /\ LET event == Head(rx_events)
           item == IF event.update.kind = "Result"
                   THEN Some(event.update.micros)
                   ELSE None
       IN CASE event.kind = "Update"
                 /\ event.update.kind \in {"Result", "Timeout"} ->
                 \E now \in {app_now, Later(app_now)} :
                    /\ app_now' = now
                    /\ app_data' = App_update(app_data, samples, event.host,
                                              item, now).data
                    /\ samples' = App_update(app_data, samples, event.host,
                                             item, now).samples
                    /\ UNCHANGED <<enabled, killed, main_pc>>
            [] event.kind = "Update" /\ event.update.kind = "Unknown" ->
                 UNCHANGED <<app_data, samples, enabled, app_now, killed,
                             main_pc>>
            [] event.kind = "Update" /\ event.update.kind = "Terminated" ->
                 /\ killed' = TRUE
                 /\ main_pc' = "join"
                 /\ UNCHANGED <<app_data, samples, enabled, app_now>>
            [] event.kind = "Render" ->
                 UNCHANGED <<app_data, samples, enabled, app_now, killed,
                             main_pc>>
            [] event.kind = "Terminate" ->
                 /\ killed' = TRUE
                 /\ main_pc' = "join"
                 /\ UNCHANGED <<app_data, samples, enabled, app_now>>
            [] event.kind = "ToggleHistogram" ->
                 /\ enabled' = ~enabled
                 /\ UNCHANGED <<app_data, samples, app_now, killed, main_pc>>
    /\ UNCHANGED <<cmd_mode, njoined, thread_pc, render_pc, key_pc, stream,
                   ndelivered>>
    /\ UNCHANGED notApp

\* `for thread in threads { thread.join().unwrap()?; }`: the host threads in
\* order, then the render thread; join returns when the thread has ended
MainJoin ==
    /\ main_pc = "join"
    /\ IF njoined < MaxHosts
       THEN thread_pc[njoined + 1] = "done"
       ELSE render_pc = "done"
    /\ njoined' = njoined + 1
    /\ main_pc' = IF njoined' = MaxHosts + 1 THEN "exited" ELSE "join"
    /\ UNCHANGED <<cmd_mode, app_data, samples, enabled, app_now, rx_events,
                   killed, thread_pc, render_pc, key_pc, stream, ndelivered>>
    /\ UNCHANGED notApp

AppIdle ==
    /\ cmd_mode = FALSE
    /\ app_data = <<>>
    /\ samples = <<>>
    /\ enabled = FALSE
    /\ app_now = 0
    /\ rx_events = <<>>
    /\ killed = FALSE
    /\ main_pc = "idle"
    /\ njoined = 0
    /\ thread_pc = <<>>
    /\ render_pc = "done"
    /\ key_pc = "done"
    /\ stream = <<>>
    /\ ndelivered = 0

\* main at the start of its loop: the threads are started, the plots empty
AppInit ==
    /\ cmd_mode \in BOOLEAN
    /\ app_data = [h \in Hosts |-> <<>>]
    /\ samples = <<>>
    /\ enabled = FALSE
    /\ app_now = 0
    /\ rx_events = <<>>
    /\ killed = FALSE
    /\ main_pc = "loop"
    /\ njoined = 0
    /\ thread_pc = [h \in Hosts |-> "check"]
    /\ render_pc = "check"
    /\ key_pc = "poll"
    /\ stream = [h \in Hosts |-> "open"]
    /\ ndelivered = 0

AppNext ==
    \/ \E h \in Hosts : FwdCheck(h)
    \/ \E h \in Hosts : FwdRecv(h)
    \/ \E h \in Hosts : FwdClosed(h)
    \/ \E h \in Hosts : CmdCheck(h)
    \/ \E h \in Hosts : CmdWait(h)
    \/ \E h \in Hosts : CmdSleep(h)
    \/ RenderCheck
    \/ RenderSend
    \/ KeyQuit
    \/ KeyToggle
    \/ MainRecv
    \/ MainJoin

\* the threads of gping and main take their steps and a started command
\* ends; nothing obliges a pinger to deliver a result or the user to press a
\* key
AppFairness ==
    /\ \A h \in Hosts : WF_vars(FwdCheck(h)) /\ WF_vars(FwdClosed(h))
    /\ \A h \in Hosts : WF_vars(CmdCheck(h)) /\ WF_vars(CmdSleep(h))
    /\ \A h \in Hosts : WF_vars(CmdWait(h))
    /\ WF_vars(RenderCheck) /\ WF_vars(RenderSend)
    /\ WF_vars(MainRecv) /\ WF_vars(MainJoin)

(***************************************************************************)
(* Specifications                                                          *)
(***************************************************************************)
InitProc ==
    /\ ProcInit /\ LoopIdle /\ RawIdle /\ CodecIdle /\ ParserIdle
    /\ DetectIdle /\ CallIdle /\ RingIdle
    /\ IoIdle /\ AppIdle

SpecProc == InitProc /\ [][ProcNext]_vars

InitLoop ==
    /\ ProcIdle /\ LoopInit /\ RawIdle /\ CodecIdle /\ ParserIdle
    /\ DetectIdle /\ CallIdle /\ RingIdle
    /\ IoIdle /\ AppIdle

SpecLoop == InitLoop /\ [][LoopNext]_vars

InitRaw ==
    /\ ProcIdle /\ LoopIdle /\ RawInit /\ probe_limit = MaxProbes
    /\ CodecIdle /\ ParserIdle /\ DetectIdle /\ CallIdle /\ RingIdle
    /\ IoIdle /\ AppIdle

SpecRaw == InitRaw /\ [][RawNext]_vars

\* the raw ICMP worker with failing socket calls
InitCycle ==
    /\ ProcIdle /\ LoopIdle /\ RawInit /\ probe_limit = MaxDropProbes
    /\ CodecIdle /\ ParserIdle /\ DetectIdle /\ CallIdle /\ RingIdle
    /\ IoIdle /\ AppIdle

SpecCycle == InitCycle /\ [][CycleNext]_vars

\* gping's event loop and threads
InitApp ==
    /\ ProcIdle /\ LoopIdle /\ RawIdle /\ CodecIdle /\ ParserIdle
    /\ DetectIdle /\ CallIdle /\ RingIdle
    /\ IoIdle /\ AppInit

SpecApp == InitApp /\ [][AppNext]_vars

FairSpecApp == SpecApp /\ AppFairness

\* dropping a Pinger: the raw ICMP engine's (run flag and pipe) or the
\* looping workers' (oneshot exit message)
InitDrop ==
    /\ ProcIdle
    /\ CodecIdle
    /\ ParserIdle
    /\ DetectIdle /\ CallIdle /\ RingIdle
    /\ \/ LoopIdle /\ RawInit /\ probe_limit = MaxDropProbes
       \/ LoopInit /\ strategy # "tcp" /\ RawIdle
    /\ IoIdle /\ AppIdle

DropNext ==
    \/ WorkerStart
    \/ LoopCheck
    \/ SelectReturn
    \/ SendPhase
    \/ RecvPhase
    \/ RawRecv
    \/ DropStore
    \/ DropWrite
    \/ DropJoin
    \/ LoopThreadStart
    \/ CmdAttempt
    \/ WinAttempt
    \/ LoopSleep
    \/ LoopRecv
    \/ LoopThreadExit
    \/ HandleNotify
    \/ HandleJoin

SpecDrop == InitDrop /\ [][DropNext]_vars

\* the threads are scheduled by the operating system: a step that stays
\* possible is eventually taken
DropFairness ==
    /\ WF_vars(WorkerStart) /\ WF_vars(LoopCheck) /\ WF_vars(SelectReturn)
    /\ WF_vars(SendPhase) /\ WF_vars(RecvPhase)
    /\ WF_vars(DropWrite) /\ WF_vars(DropJoin)
    /\ WF_vars(LoopThreadStart) /\ WF_vars(LoopThreadExit)
    /\ WF_vars(HandleJoin)

FairSpecDrop == SpecDrop /\ DropFairness

InitCodec ==
    /\ ProcIdle /\ LoopIdle /\ RawIdle /\ CodecInit /\ ParserIdle
    /\ DetectIdle /\ CallIdle /\ RingIdle
    /\ IoIdle /\ AppIdle

SpecCodec == InitCodec /\ [][CodecNext]_vars

\* encode on destination buffers of every length
InitEncode ==
    /\ ProcIdle /\ LoopIdle /\ RawIdle /\ EncodeInit /\ ParserIdle
    /\ DetectIdle /\ CallIdle /\ RingIdle
    /\ IoIdle /\ AppIdle

SpecEncode == InitEncode /\ [][EncodeRequest]_vars

\* the decoders applied to a received datagram
InitDecode ==
    /\ ProcIdle /\ LoopIdle /\ RawIdle /\ ReceiveInit /\ ParserIdle
    /\ DetectIdle /\ CallIdle /\ RingIdle
    /\ IoIdle /\ AppIdle

DecodeNext ==
    \/ DecodeReply
    \/ DecodeIp

SpecDecode == InitDecode /\ [][DecodeNext]_vars

(***************************************************************************)
(* The receive phase on the bytes of a datagram: src/linux.rs              *)
(***************************************************************************)
TOKEN_SIZE == 24

\* `let payload: Token = random()`: the 24 bytes of the n-th probe's token
Token(n) == [j \in 1..TOKEN_SIZE |-> (n * 7 + j) % 256]

\* 24 bytes no probe carries
ForgedBytes == [j \in 1..TOKEN_SIZE |-> 255]

\* EchoReply::decode::<P>(icmp), Token::try_from(reply.payload),
\* in_flight_table.remove(&token) and tx.try_send(send_time.elapsed()).ok()
match_reply(P, table, tx, icmp, now) ==
    LET r == decode(P, icmp)
    IN IF /\ r.kind = "Ok"
          /\ Len(r.payload) = TOKEN_SIZE
          /\ r.payload \in DOMAIN table
       THEN [table |-> Remove(table, r.payload),
             chan |-> try_send(tx, now - table[r.payload])]
       ELSE [table |-> table, chan |-> tx]

\* a receive phase that reports a matched reply and keeps its entry
receive_keep_entry(P, table, tx, data, now) ==
    LET out == IF P = IcmpV4
               THEN LET ip == IpV4Packet_decode(data)
                    IN IF ip.kind = "Ok"
                       THEN match_reply(P, table, tx, ip.data, now)
                       ELSE [table |-> table, chan |-> tx]
               ELSE match_reply(P, table, tx, data, now)
    IN [table |-> table, chan |-> out.chan]

\* the receive phase after socket.read returned Ok(amt), data = buffer[..amt]:
\* for an IPv4 destination the IP header is stripped first, for an IPv6
\* destination the datagram is the ICMP packet
receive(P, table, tx, data, now) ==
    IF P = IcmpV4
    THEN LET ip == IpV4Packet_decode(data)
         IN IF ip.kind = "Ok"
            THEN match_reply(P, table, tx, ip.data, now)
            ELSE [table |-> table, chan |-> tx]
    ELSE match_reply(P, table, tx, data, now)

\* IP headers: 20 bytes as the kernel delivers them; version 6; protocol TCP;
\* 24 bytes with options; a length field of 60 bytes on a 20-byte header
IpHeader(byte0, protocol, n) ==
    [i \in 1..n |-> CASE i = 1 -> byte0
                      [] i = 9 -> 64
                      [] i = 10 -> protocol
                      [] OTHER -> 0]

IpHeaders ==
    {IpHeader(69, 1, 20), IpHeader(101, 1, 20), IpHeader(69, 6, 20),
     IpHeader(70, 1, 24), IpHeader(79, 1, 20)}

\* the type and code bytes of the ICMP packets received: the echo reply of
\* the protocol, its echo request, a reply type with another code, an error
TypeCodes(P) ==
    {<<P.ECHO_REPLY_TYPE, P.ECHO_REPLY_CODE>>,
     <<P.ECHO_REQUEST_TYPE, P.ECHO_REQUEST_CODE>>,
     <<P.ECHO_REPLY_TYPE, 1>>, <<3, 1>>}

\* the probes whose tokens come back
MaxProbe == 30
Echoed == {1, 2, 12, MaxProbe - IN_FLIGHT_TO_RETAIN + 1, MaxProbe}

\* payloads: a token, a forged token, a token cut short or extended, nothing
ReplyPayloads ==
    {Token(n) : n \in Echoed}
        \cup {ForgedBytes, SubSeq(Token(1), 1, TOKEN_SIZE - 1),
              Token(1) \o <<0>>, <<>>}

IcmpPackets(P) ==
    {<<tc[1], tc[2], 0, 0, 18, 52, 0, 1>> \o payload :
        tc \in TypeCodes(P), payload \in ReplyPayloads}
        \cup {<<P.ECHO_REPLY_TYPE, P.ECHO_REPLY_CODE, 0, 0>>}

\* what socket.read returns for a destination of the protocol's family, whole
\* or cut to its first bytes
DatagramsOf(P) ==
    LET whole == IF P = IcmpV4
                 THEN {h \o icmp : h \in IpHeaders, icmp \in IcmpPackets(P)}
                 ELSE IcmpPackets(P)
    IN whole \cup {SubSeq(IpHeader(69, 1, 20) \o
                            <<P.ECHO_REPLY_TYPE, P.ECHO_REPLY_CODE>>, 1, n) :
                      n \in {0, 7, 19, 20, 22}}

\* the worker before a receive phase: the clock, the probes in flight (each
\* sent at the instant of its number) and the results not yet taken
Scenario(now, live, queued) ==
    [now |-> now, live |-> live, queued |-> queued]

Scenarios ==
    {Scenario(0, {}, 0), Scenario(1, {1}, 0), Scenario(2, {1, 2}, 0),
     Scenario(2, {2}, 1), Scenario(12, 3..12, 0), Scenario(12, 3..12, 2),
     Scenario(MaxProbe, (MaxProbe - IN_FLIGHT_TO_RETAIN + 1)..MaxProbe,
              CHANNEL_BOUND - 1),
     Scenario(MaxProbe, (MaxProbe - IN_FLIGHT_TO_RETAIN + 1)..MaxProbe,
              CHANNEL_BOUND)}

TableOf(live) ==
    [k \in {Token(n) : n \in live} |->
        CHOOSE n \in live : Token(n) = k]

\* what the receive phase leaves alone
notReceive ==
    <<procVars, loopVars, parserVars, detectVars, callVars, ringVars,
     ioVars, appVars>>

\* socket.read returned a datagram: the receive phase of one cycle
ReadDatagram ==
    /\ raw_pc = "recv"
    /\ codec_pc = "received"
    /\ LET out == receive(proto, in_flight_table, raw_chan, buffer, nsent)
       IN /\ in_flight_table' = out.table
          /\ raw_chan' = out.chan
          /\ last_elapsed' = IF out.table # in_flight_table
                             THEN nsent - in_flight_table[decode(proto,
                                     IF proto = IcmpV4
                                     THEN IpV4Packet_decode(buffer).data
                                     ELSE buffer).payload]
                             ELSE last_elapsed
    /\ raw_pc' = "loop"
    /\ codec_pc' = "idle"
    /\ UNCHANGED <<run, nsent, overtakes, nrecv, drop_pc, pipe_written,
                   cap_effective, probe_limit>>
    /\ UNCHANGED <<proto, request, buffer, reply, packet>>
    /\ UNCHANGED notReceive

\* a running worker that has a datagram to read
ReadInit ==
    /\ run = TRUE
    /\ raw_pc = "recv"
    /\ \E sc \in Scenarios :
          /\ nsent = sc.now
          /\ in_flight_table = TableOf(sc.live)
          /\ raw_chan = [i \in 1..sc.queued |-> 1]
    /\ last_elapsed = -1
    /\ overtakes = 0
    /\ nrecv = 0
    /\ drop_pc = "held"
    /\ pipe_written = FALSE
    /\ cap_effective = TRUE
    /\ probe_limit = MaxProbe
    /\ codec_pc = "received"
    /\ proto \in {IcmpV4, IcmpV6}
    /\ request = EchoRequest(0, 0, <<>>)
    /\ buffer \in DatagramsOf(proto)
    /\ reply = None
    /\ packet = None

InitRead ==
    /\ ProcIdle /\ LoopIdle /\ ReadInit /\ ParserIdle
    /\ DetectIdle /\ CallIdle /\ RingIdle
    /\ IoIdle /\ AppIdle

SpecRead == InitRead /\ [][ReadDatagram]_vars

\* the fake worker and its consumer
InitFake ==
    /\ ProcIdle /\ FakeInit /\ RawIdle /\ CodecIdle /\ ParserIdle
    /\ DetectIdle /\ CallIdle /\ RingIdle
    /\ IoIdle /\ AppIdle

SpecFake == InitFake /\ [][FakeNext]_vars

\* detect_linux_ping on the captured output of `ping -V`
InitDetect ==
    /\ ProcIdle /\ LoopIdle /\ RawIdle /\ CodecIdle /\ ParserIdle
    /\ DetectInit /\ CallIdle /\ RingIdle
    /\ IoIdle /\ AppIdle

SpecDetect == InitDetect /\ [][DetectNext]_vars

\* the construction of a Target from a string
InitTarget ==
    /\ ProcIdle /\ LoopIdle /\ RawIdle /\ CodecIdle /\ ParserIdle
    /\ DetectIdle /\ TargetInit /\ RingIdle
    /\ IoIdle /\ AppIdle

SpecTarget == InitTarget /\ [][TargetNext]_vars

\* the resolution of a host name to the address shown
InitResolve ==
    /\ ProcIdle /\ LoopIdle /\ RawIdle /\ CodecIdle /\ ParserIdle
    /\ DetectIdle /\ ResolveInit /\ RingIdle
    /\ IoIdle /\ AppIdle

SpecResolve == InitResolve /\ [][GetHostIpaddr]_vars

\* the lookup of an AWS region
InitRegion ==
    /\ ProcIdle /\ LoopIdle /\ RawIdle /\ CodecIdle /\ ParserIdle
    /\ DetectIdle /\ RegionInit /\ RingIdle
    /\ IoIdle /\ AppIdle

SpecRegion == InitRegion /\ [][TryHostFromAwsRegion]_vars

\* pushes into a FixedRingBuffer
InitRing ==
    /\ ProcIdle /\ LoopIdle /\ RawIdle /\ CodecIdle /\ ParserIdle
    /\ DetectIdle /\ CallIdle /\ RingInit
    /\ IoIdle /\ AppIdle

SpecRing == InitRing /\ [][RingNext]_vars

\* the parsers applied to a text
InitParser ==
    /\ ProcIdle /\ LoopIdle /\ RawIdle /\ CodecIdle /\ ParserInit
    /\ DetectIdle /\ CallIdle /\ RingIdle
    /\ IoIdle /\ AppIdle

SpecParser == InitParser /\ [][ParserNext]_vars

(***************************************************************************)
(* Properties of the process-based worker                                  *)
(***************************************************************************)
\* everything ever placed on the channel and not discarded, oldest first
Delivered == received \o chan

HasExited(h) == \E i \in 1..Len(h) : h[i].kind = "PingExited"

\* the results the worker forwards for the items it has read, in order
Forwarded(items) ==
    LET results == [i \in 1..Len(items) |->
                      IF items[i] = ReadErr THEN None ELSE parse(items[i])]
        keep(r) == r # None /\ r # Panic
    IN SelectSeq(results, keep)

\* C1: PingExited is the last message ever placed on the channel: nothing
\* follows it, there is at most one, and once it has been sent the worker
\* thread has terminated.
C1_ExitedIsLast ==
    /\ \A i \in 1..Len(Delivered) :
          Delivered[i].kind = "PingExited" => i = Len(Delivered)
    /\ HasExited(Delivered) => worker_pc = "done"

\* results were forwarded, then PingExited, and the caller has drained them
C1_Witness ==
    /\ Len(received) >= 3
    /\ received[1].kind = "Pong"
    /\ received[Len(received)].kind = "PingExited"
    /\ chan = <<>>

\* C2 (as claimed): with the receiver alive, once the child has exited the
\* worker never ends without a PingExited on the channel.
C2_ExitAlwaysReported ==
    (child_state = "exited" /\ rx_alive /\ worker_pc \in {"done", "panicked"})
        => HasExited(Delivered)

\* C3: while the receiver lives, what the caller receives is, in order and
\* without duplicates or gaps, the non-None parser results of the stdout
\* lines in the order they were read, followed by PingExited once the worker
\* has sent it.
C3_OrderPreserved ==
    rx_alive =>
        Delivered = Forwarded(lines_read)
                         \o (IF worker_pc = "done"
                             THEN <<PingExited(child_status, child_stderr)>>
                             ELSE <<>>)

\* the caller has received a Pong and a Timeout in the order read, a line
\* that produced no event lay between them, and PingExited came last
C3_Witness ==
    /\ rx_alive
    /\ worker_pc = "done"
    /\ lines_read = <<PongLine, BannerLine, TimeoutLine>>
    /\ Len(received) = 3
    /\ received[1].kind = "Pong"
    /\ received[2].kind = "Timeout"
    /\ received[3].kind = "PingExited"

\* the tokens a step of the receive phase took from the in-flight table for
\* a matching reply (the send phase alone removes entries otherwise)
Matched ==
    IF raw_pc = "recv"
    THEN DOMAIN in_flight_table \ DOMAIN in_flight_table'
    ELSE {}

\* the Pong of the probe carrying tok.  The channel carries the elapsed
\* Duration only; the model tags it with the probe it answers.
PongOf(tok) == [tok |-> tok, sent_at |-> in_flight_table[tok]]

InSendOrder(q) == \A i \in 1..(Len(q) - 1) : q[i].sent_at < q[i + 1].sent_at

\* no probe is on the channel twice or while still in flight
OncePerProbe(q) ==
    LET toks == {q[i].tok : i \in 1..Len(q)}
    IN /\ Cardinality(toks) = Len(q)
       /\ toks \cap DOMAIN in_flight_table = {}
       /\ Len(q) <= CHANNEL_BOUND

C5_SilentStop == send_failed => worker_pc # "panicked"

\* C6 (as claimed): once the receiver has been dropped, a failed send on any
\* branch ends the worker loop.
C6_FailedSendEndsLoop == last_send = "err" => loop_pc = "done"

\* the raw ICMP worker has returned and Drop has joined it
RawDropped == drop_pc = "joined" /\ raw_pc = "exited"

\* the looping worker's thread has ended and Drop has joined it
HandleDropped == ping_thread = "joined" /\ loop_thread = "exited"

\* Dropping the raw ICMP Pinger completes wherever the worker is: once the
\* run flag is cleared the worker leaves its loop and the join returns.
RawDropCompletes == (drop_pc = "stored") ~> RawDropped

\* C7 (as claimed): Drop never panics, and once begun it completes: the
\* worker observes the cancellation and exits and the join returns, for the
\* raw ICMP Pinger (run flag and pipe) and for the looping workers (oneshot
\* exit message).
C7_DropCompletes ==
    /\ [](ping_thread # "panicked")
    /\ (drop_pc = "stored") ~> RawDropped
    /\ (ping_thread = "notified") ~> HandleDropped

\* C8 (as claimed): no stdout line and no stderr content drives the worker
\* into a panic.
C8_NoPanic == worker_pc # "panicked"

\* no reply has matched a probe so far
NoReplies == raw_chan = <<>> /\ nrecv = 0 /\ overtakes = 0

\* C9: after n > 10 probes with distinct tokens and no replies in between,
\* the in-flight table holds exactly 10 entries, those of the 10 most recent
\* probes: every eviction took the entry with the earliest send instant.
C9_TableKeepsNewest ==
    (NoReplies /\ nsent > IN_FLIGHT_TO_RETAIN) =>
        /\ Cardinality(DOMAIN in_flight_table) = IN_FLIGHT_TO_RETAIN
        /\ DOMAIN in_flight_table =
              {TokenOf(i) : i \in (nsent - IN_FLIGHT_TO_RETAIN + 1)..nsent}
        /\ \A i \in (nsent - IN_FLIGHT_TO_RETAIN + 1)..nsent :
              in_flight_table[TokenOf(i)] = i

\* thirteen probes sent, none answered: three evictions have happened
C9_Witness ==
    /\ NoReplies
    /\ nsent = 13
    /\ Cardinality(DOMAIN in_flight_table) = IN_FLIGHT_TO_RETAIN

\* C10: for every identifier, sequence number and payload and for both
\* protocols, an echo request encoded into a buffer of exactly 8 +
\* len(payload) bytes whose bytes 0 and 1 are then overwritten with the
\* echo-reply type and code decodes successfully as an echo reply with the
\* same identifier, sequence number and payload.
C10_RoundTrip ==
    codec_pc = "decoded" =>
        reply = EchoReply(request.ident, request.seq_cnt, request.payload)

\* an ICMPv6 request with a two-byte identifier, a two-byte sequence number
\* and an odd-length payload, written over a buffer of 0xFF bytes, has come
\* back and been decoded
C10_Witness ==
    /\ codec_pc = "decoded"
    /\ proto = IcmpV6
    /\ request = EchoRequest(43981, 256, <<90>>)
    /\ buffer[1] = 129
    /\ reply.kind = "Ok"

\* what C11 says EchoReply::decode returns for protocol P and a buffer
ClaimedReply(P, buf) ==
    IF Len(buf) < ICMP_HEADER_SIZE
    THEN Err("Invalid size")
    ELSE IF buf[1] # P.ECHO_REPLY_TYPE \/ buf[2] # P.ECHO_REPLY_CODE
    THEN Err("Invalid Packet")
    ELSE EchoReply(buf[5] * 256 + buf[6], buf[7] * 256 + buf[8],
                   SubSeq(buf, ICMP_HEADER_SIZE + 1, Len(buf)))

\* C11 (as claimed): decode returns "Invalid size" exactly for buffers
\* shorter than 8 bytes, otherwise "Invalid Packet" exactly when byte 0
\* differs from the reply type or byte 1 from the reply code, otherwise the
\* reply read from bytes 4-5, 6-7 and from offset 8.
C11_DecodeRejectsMismatch ==
    codec_pc = "decoded" => reply = ClaimedReply(proto, buffer)

\* C12: IpV4Packet::decode fails with "Too Small Header" for every buffer
\* shorter than 20 bytes, and with "Invalid Version" for every buffer of at
\* least 20 bytes whose high nibble of byte 0 is not 4, whatever the
\* header-length nibble, byte 9 and the other bytes are.
C12_TooSmallThenVersion ==
    codec_pc = "stripped" =>
        /\ Len(buffer) < 20 => packet = Err("Too Small Header")
        /\ (Len(buffer) >= 20 /\ buffer[1] \div 16 # 4) =>
               packet = Err("Invalid Version")

\* a 24-byte datagram of version 6 whose header-length nibble is 5 and whose
\* protocol byte is ICMP has been refused for its version
C12_Witness ==
    /\ codec_pc = "stripped"
    /\ Len(buffer) = 24
    /\ buffer[1] = 101
    /\ buffer[10] = 1
    /\ packet = Err("Invalid Version")

(***************************************************************************)
(* Properties of the output parsers                                        *)
(***************************************************************************)
\* How a line reads, told apart from how the patterns match it: the
\* position after the first "time=", the digits of the integer part, the
\* digits after a "." that follows them, and what comes after the number.
TimeAt(line) ==
    IF contains(line, "time=")
    THEN 1 + CHOOSE i \in 1..Len(line) :
               line[i] = "time=" /\ \A j \in 1..(i - 1) : line[j] # "time="
    ELSE 0

DigitRun(t, from) ==
    CHOOSE n \in 0..Len(t) :
        /\ from + n - 1 <= Len(t)
        /\ AllDigits(t, from, n)
        /\ from + n <= Len(t) => t[from + n] \notin Digits

IntDigits(line) ==
    IF TimeAt(line) = 0 THEN <<>>
    ELSE SubSeq(line, TimeAt(line),
                TimeAt(line) + DigitRun(line, TimeAt(line)) - 1)

FracAt(line) == TimeAt(line) + Len(IntDigits(line)) + 1

HasFrac(line) ==
    /\ IntDigits(line) # <<>>
    /\ FracAt(line) <= Len(line)
    /\ line[FracAt(line) - 1] = "."
    /\ line[FracAt(line)] \in Digits

FracDigits(line) ==
    IF HasFrac(line)
    THEN SubSeq(line, FracAt(line),
                FracAt(line) + DigitRun(line, FracAt(line)) - 1)
    ELSE <<>>

\* what follows the number
AfterValue(line) ==
    SubSeq(line,
           IF HasFrac(line) THEN FracAt(line) + Len(FracDigits(line))
           ELSE FracAt(line) - 1,
           Len(line))

\* the number is followed by "ms", after blanks if any
HasUnit(rest, letters) ==
    \E k \in 0..Len(rest) :
        /\ k + 2 <= Len(rest)
        /\ \A i \in 1..k : rest[i] = " "
        /\ <<rest[k + 1], rest[k + 2]>> \in letters

\* at least one blank, then "ms"
HasBlankAndUnit(rest) ==
    Len(rest) >= 1 /\ rest[1] = " " /\ HasUnit(rest, {<<"m", "s">>})

\* the line carries time=<integer>[.<fraction>]
HasValue(line) == TimeAt(line) > 0 /\ Len(IntDigits(line)) >= 1

\* M milliseconds plus F * 10^(6-d) nanoseconds
ValueOf(line) ==
    Pong(parse_u64(IntDigits(line)),
         parse_u64(FracDigits(line)) * Pow10(6 - Len(FracDigits(line))),
         line)

\* the line the Linux parser looks at
ReplyLines == {i \in 1..Len(input) : starts_with(input[i], "64 bytes from")}

ReplyLine == input[CHOOSE i \in ReplyLines : \A j \in ReplyLines : i <= j]

\* C13: a line the Linux or the Windows parser hands to its time= pattern
\* and the pattern accepts, with integer part M and no fraction or a fraction
\* F of 1 to 6 digits, gives Pong of exactly M ms plus F * 10^(6-d) ns.
C13_TimeValue ==
    /\ (parse_pc = "parsed" /\ parser_kind = "linux" /\ ReplyLines # {}) =>
          ((/\ HasValue(ReplyLine)
            /\ Len(FracDigits(ReplyLine)) <= 6
            /\ HasUnit(AfterValue(ReplyLine),
                       {<<"m", "s">>, <<"M", "S">>, <<"m", "S">>, <<"M", "s">>}))
             => parsed = ValueOf(ReplyLine))
    /\ (/\ parse_pc = "parsed"
        /\ parser_kind = "windows"
        /\ ~contains(input[1], "timed out")
        /\ ~contains(input[1], "failure")) =>
          ((HasValue(input[1]) /\ Len(FracDigits(input[1])) <= 6)
             => parsed = ValueOf(input[1]))

\* "64 bytes from 1.1.1.1: icmp_seq=1 ttl=64 time=23.1 ms" after the banner
\* has given 23.1 ms
C13_Witness ==
    /\ parse_pc = "parsed"
    /\ parser_kind = "linux"
    /\ Len(input) = 2
    /\ IntDigits(input[2]) = <<"2", "3">>
    /\ FracDigits(input[2]) = <<"1">>
    /\ parsed = Pong(23, 100000, input[2])

\* C14 (as claimed): for the BSD and macOS parsers a line that is neither a
\* banner nor a timeout and carries "time=N ms" gives Pong of exactly N ms,
\* and one that carries "time=M.F ms" gives M ms plus the fraction F.
C14_BsdHonorsBothFormats ==
    (/\ parse_pc = "parsed"
     /\ parser_kind \in {"bsd", "macos"}
     /\ ~starts_with(input[1], "PING ")
     /\ ~starts_with(input[1], "Request timeout")
     /\ HasValue(input[1])
     /\ Len(FracDigits(input[1])) <= 6
     /\ HasBlankAndUnit(AfterValue(input[1])))
        => parsed = ValueOf(input[1])

\* C15 (as claimed): the Linux parser gives Timeout for a line starting with
\* "no answer yet", nothing for the "PING ..." banner and Pong for a line
\* starting with "64 bytes from" that carries a time= value; a banner or
\* timeout line gives no other variant.
C15_LinuxByPrefix ==
    (parse_pc = "parsed" /\ parser_kind = "linux" /\ Len(input) = 1) =>
        /\ starts_with(input[1], "no answer yet") => parsed = Timeout(input[1])
        /\ starts_with(input[1], "PING ") => parsed = None
        /\ (/\ starts_with(input[1], "64 bytes from")
            /\ HasValue(input[1])
            /\ Len(FracDigits(input[1])) <= 6
            /\ HasUnit(AfterValue(input[1]), {<<"m", "s">>, <<"M", "S">>}))
              => parsed.kind = "Pong"

\* the pattern of the parser at hand accepts the line
Accepted(kind, line) ==
    /\ HasValue(line)
    /\ CASE kind = "windows" -> TRUE
         [] kind = "linux" ->
              HasUnit(AfterValue(line), {<<"m", "s">>, <<"M", "S">>})
         [] OTHER -> HasFrac(line) /\ HasBlankAndUnit(AfterValue(line))

\* the line is a banner or an explicit timeout line of the parser at hand
BannerOrTimeout(kind, line) ==
    CASE kind = "windows" ->
           contains(line, "timed out") \/ contains(line, "failure")
      [] kind = "linux" ->
           starts_with(line, "PING ") \/ starts_with(line, "no answer yet")
      [] OTHER ->
           starts_with(line, "PING ") \/ starts_with(line, "Request timeout")

\* C16 (as claimed): for every parser, a non-empty line that is not a
\* banner, not an explicit timeout line and does not match the time=
\* pattern is mapped to Unknown(line), never to None.
C16_UnmatchedIsUnknown ==
    (/\ parse_pc = "parsed"
     /\ Len(input) = 1
     /\ input[1] # <<>>
     /\ ~BannerOrTimeout(parser_kind, input[1])
     /\ ~Accepted(parser_kind, input[1]))
        => parsed = Unknown(input[1])

\* C17 (as claimed): the Windows parser maps every line containing "timed
\* out" or "failure" to Timeout, with or without a time= value, and
\* "Reply from 1.1.1.1: bytes=32 time=14ms TTL=64" to Pong of 14 ms.
C17_WindowsTimeouts ==
    (parse_pc = "parsed" /\ parser_kind = "windows") =>
        /\ (contains(input[1], "timed out") \/ contains(input[1], "failure"))
              => parsed = Timeout(input[1])
        /\ (/\ starts_with(input[1], "Reply from")
            /\ IntDigits(input[1]) = <<"1", "4">>
            /\ ~HasFrac(input[1]))
              => parsed = Pong(14, 0, input[1])

(***************************************************************************)
(* Properties of the TCP and fake workers                                  *)
(***************************************************************************)
\* the result r is the one the outcome o calls for
ResultFor(r, o, rst) ==
    CASE o.resolved # "addr" -> r.kind = "Unknown"
      [] o.resolved = "addr" /\ o.connected = "connected" ->
           r.kind = "Pong" /\ r.line = "addr"
      [] o.resolved = "addr" /\ o.connected = "refused" ->
           IF rst THEN r.kind = "Pong" /\ r.line = "addr"
           ELSE r = Timeout("addr")
      [] OTHER -> r = Timeout("addr")

C20_FakePongsStrictlyBetween ==
    strategy = "fake" =>
        \A i \in 1..Len(loop_chan) :
            /\ loop_chan[i].kind = "Pong"
            /\ 50 < loop_chan[i].ms
            /\ loop_chan[i].ms < 150

(***************************************************************************)
(* Properties of the detection of the Linux ping                           *)
(***************************************************************************)
\* the classification as claimed, for a pair (stdout, stderr)
ClaimedDetection(stdout, stderr) ==
    IF text_contains(stderr, "BusyBox") THEN BusyBox
    ELSE IF text_contains(stdout, "iputils") THEN IPTools
    ELSE IF text_contains(stdout, "inetutils") THEN NotSupported
    ELSE UnknownPing(first_two_lines(stdout), first_two_lines(stderr))

\* C18 (as claimed): for every pair (stdout, stderr) the detection gives
\* BusyBox when stderr contains "BusyBox", IPTools when stdout contains
\* "iputils", the NotSupported error when stdout contains "inetutils", and
\* otherwise the UnknownPing error with the first two lines (or fewer) of
\* stdout and of stderr.
C18_DetectionCascade ==
    detect_pc = "detected" =>
        detected = ClaimedDetection(ping_stdout, ping_stderr)

(***************************************************************************)
(* Properties of the target construction                                   *)
(***************************************************************************)
TargetReturned == call_pc = "returned" /\ callee = "Target::new"

\* C21 (as claimed): for every string and every family preference the
\* result is Target::IP with the address when the string is an IP literal of
\* either family, and Hostname{domain: s, version: preference} only if it is
\* no IP literal.
C21_LiteralOfEitherFamily ==
    TargetReturned => call_result = new_literal_first(args.value, args.version)

\* the string is a literal of the family asked for, of any with Any
LiteralOfFamily(value, version) ==
    /\ parse_IpAddr(value) # None
    /\ version # "Any" => parse_IpAddr(value).family = version

\* C21 (amended): the literal parse is the one of the requested family.  The
\* result is Target::IP with the address exactly when the string is a
\* literal of that family (of either family with Any); every other string, a
\* literal of the other family included, gives Hostname{domain: s, version:
\* preference}.
C21_LiteralOfRequestedFamily ==
    TargetReturned =>
        IF LiteralOfFamily(args.value, args.version)
        THEN call_result = IP(parse_IpAddr(args.value))
        ELSE call_result = Hostname(args.value, args.version)

\* "::1" with preference V4 has become a hostname
C21_Witness ==
    /\ TargetReturned
    /\ args = [value |-> <<":", ":", "1">>, version |-> "V4"]
    /\ parse_IpAddr(args.value) = IpAddrV6(<<0, 0, 0, 0, 0, 0, 0, 1>>)
    /\ call_result = Hostname(args.value, "V4")

(***************************************************************************)
(* Properties of the ring buffer                                           *)
(***************************************************************************)
\* the last k elements of a sequence
LastOf(q, k) == SubSeq(q, Len(q) - k + 1, Len(q))

Kept == IF Len(pushed) < ring_cap THEN Len(pushed) ELSE ring_cap

\* C24: for a capacity of at least 1, after n pushes as_slice (and iter,
\* which goes through it) gives exactly the last min(n, cap) elements pushed,
\* in push order, whether or not the backing vector has been shifted.
C24_SliceIsLastPushed ==
    ring_cap >= 1 =>
        /\ as_slice(ringbuffer) = LastOf(pushed, Kept)
        /\ len(ringbuffer) = Kept

\* a buffer of capacity 1 whose backing vector of 2 elements has been
\* shifted twice, at the third and at the fifth push
C24_Witness ==
    /\ ring_cap = 1
    /\ vec_capacity = 2
    /\ Len(pushed) = 6
    /\ ring_head = 1
    /\ as_slice(ringbuffer) = <<pushed[Len(pushed)]>>

(***************************************************************************)
(* Properties of the resolution                                            *)
(***************************************************************************)
\* the positions of the addresses of a family in the resolver's list
Of(addrs, family) == {i \in 1..Len(addrs) : addrs[i].family = family}

\* the family forced
Forced == IF args.force_ipv4 THEN "V4" ELSE "V6"

\* C22: a lookup that listed addresses, with a family forced, never gives an
\* address of the other family: it fails when the list holds none of the
\* family and gives the first of the family in the resolver's order if it
\* holds one; with no family forced it gives the first address.
C22_FamilyFilter ==
    (/\ call_pc = "returned"
     /\ callee = "get_host_ipaddr"
     /\ args.idna # "failed"
     /\ args.resolved.kind = "Ok"
     /\ args.resolved.value # <<>>) =>
        LET addrs == args.resolved.value
        IN IF args.force_ipv4 \/ args.force_ipv6
           THEN /\ Of(addrs, Forced) = {} => call_result.kind = "Err"
                /\ Of(addrs, Forced) # {} =>
                      /\ call_result.kind = "Ok"
                      /\ call_result.value.family = Forced
                      /\ \E i \in Of(addrs, Forced) :
                            /\ call_result.value = addrs[i]
                            /\ \A j \in Of(addrs, Forced) : i <= j
           ELSE call_result = Ok(addrs[1])

\* with -6, a list of a V4 address followed by two V6 addresses has given
\* the first of the V6 addresses
C22_Witness ==
    /\ call_pc = "returned"
    /\ callee = "get_host_ipaddr"
    /\ args.force_ipv6
    /\ args.resolved = Ok(<<[family |-> "V4", host |-> "a"],
                            [family |-> "V6", host |-> "b"],
                            [family |-> "V6", host |-> "a"]>>)
    /\ call_result = Ok([family |-> "V6", host |-> "b"])

(***************************************************************************)
(* Properties of the region lookup                                         *)
(***************************************************************************)
\* the query as the lookup reads it: blanks to underscores, lower case
Normalized(query) == to_lowercase(replace(query, " ", "_"))

\* C25 (as claimed): for every region code r the table maps to, the query
\* "aws:r" in any letter case gives Ok("ec2.r.amazonaws.com"); a city alias
\* gives the host of its region; a query whose normalized form is no key
\* gives Err with the query as it was written.
C25_RegionLookup ==
    (call_pc = "returned" /\ callee = "try_host_from_aws_region") =>
        /\ \A r \in RegionCodes :
              Normalized(args.query) = aws \o r => call_result = Ok(Host(r))
        /\ \A e \in region_map :
              Normalized(args.query) = e.key =>
                  call_result = Ok(Host(e.region))
        /\ (\A e \in region_map : Normalized(args.query) # e.key) =>
              call_result = AWSRegionNotFoundError(args.query)

(***************************************************************************)
(* Properties of the raw ICMP worker: construction and the in-flight table *)
(***************************************************************************)
\* the caller holds a Pinger that Pinger::new returned with Ok
HandleReturned == drop_pc \in {"held", "stored", "written"}

\* C23 (as claimed): when the creation of the raw socket fails, the caller
\* has not been given an Ok handle: the worker never gives up on the socket
\* while a Pinger handle is out.
C23_SocketFailureReported ==
    [][(raw_pc = "start" /\ raw_pc' = "exited") => ~HandleReturned']_vars

\* the tokens that leave the table in a step
Leaving == (DOMAIN in_flight_table) \ (DOMAIN in_flight_table')

\* the step is a receive phase in which the reply to tok was matched
MatchedReply(tok) ==
    /\ raw_pc = "recv"
    /\ in_flight_table' = Remove(in_flight_table, tok)

\* the step is a send phase in which tok, the oldest entry of a full table,
\* made room for the probe just sent
Evicted(tok) ==
    /\ raw_pc = "send"
    /\ Cardinality(DOMAIN in_flight_table) = IN_FLIGHT_TO_RETAIN
    /\ tok = Oldest(in_flight_table)
    /\ nsent' = nsent + 1
    /\ TokenOf(nsent') \in DOMAIN in_flight_table'

\* C26: at the end of every send phase and of every receive phase the
\* in-flight table holds at most 10 entries, and an entry leaves the table
\* only by a matching reply or by eviction.
C26_TableBounded ==
    /\ [](raw_pc \in {"recv", "loop"} =>
            Cardinality(DOMAIN in_flight_table) <= IN_FLIGHT_TO_RETAIN)
    /\ [][\A tok \in Leaving : MatchedReply(tok) \/ Evicted(tok)]_vars

\* a send phase has just ended with a full table, two probes having been
\* evicted and one answered
C26_Witness ==
    /\ raw_pc = "recv"
    /\ nsent = 13
    /\ Cardinality(DOMAIN in_flight_table) = IN_FLIGHT_TO_RETAIN
    /\ Len(raw_chan) = 1
    /\ TokenOf(1) \notin DOMAIN in_flight_table
    /\ TokenOf(2) \notin DOMAIN in_flight_table

(***************************************************************************)
(* Properties of the receive phase                                         *)
(***************************************************************************)
\* an IPv4 header that frames an ICMP packet
FramesIcmp(data) ==
    /\ Len(data) >= MINIMUM_PACKET_SIZE
    /\ data[1] \div 16 = 4
    /\ Len(data) >= 4 * (data[1] % 16)
    /\ data[10] = 1

\* the ICMP packet of a datagram: behind the IP header for IPv4, the whole
\* datagram for IPv6
IcmpPart(P, data) ==
    IF P = IcmpV4
    THEN SubSeq(data, 4 * (data[1] % 16) + 1, Len(data))
    ELSE data

\* the datagram is an echo reply of the protocol
WellFormedReply(P, data) ==
    /\ P = IcmpV4 => FramesIcmp(data)
    /\ Len(IcmpPart(P, data)) >= ICMP_HEADER_SIZE
    /\ IcmpPart(P, data)[1] = P.ECHO_REPLY_TYPE
    /\ IcmpPart(P, data)[2] = P.ECHO_REPLY_CODE

\* the bytes behind the ICMP header
PayloadOf(P, data) ==
    SubSeq(IcmpPart(P, data), ICMP_HEADER_SIZE + 1, Len(IcmpPart(P, data)))

\* the datagram is an echo reply to a probe in flight
AnswersProbe ==
    /\ WellFormedReply(proto, buffer)
    /\ Len(PayloadOf(proto, buffer)) = TOKEN_SIZE
    /\ PayloadOf(proto, buffer) \in DOMAIN in_flight_table

\* the Pong of the probe the datagram answers
PongFor == nsent - in_flight_table[PayloadOf(proto, buffer)]

\* a receive phase on a datagram
Reads == raw_pc = "recv" /\ codec_pc = "received" /\ raw_pc' = "loop"

C28_UnmatchedDatagramIgnored ==
    [][(Reads /\ ~AnswersProbe) =>
           /\ UNCHANGED <<in_flight_table, raw_chan>>
           /\ raw_pc' = "loop"
           /\ run' = run]_vars

(***************************************************************************)
(* Properties of EchoRequest::encode                                       *)
(***************************************************************************)
\* the folded one's-complement sum of the 16-bit big-endian words of a
\* buffer, an odd trailing byte padded with a zero low byte
OnesComplementSum(buf) == Fold(SumWords(buf, (Len(buf) + 1) \div 2))

\* C29 (as claimed): after encode into a buffer of exactly 8 + len(payload)
\* bytes of any prior content, the one's-complement sum of all 16-bit words
\* of the buffer, carries folded, is 0xFFFF.
C29_ChecksumCorrect ==
    (/\ codec_pc = "encoded"
     /\ Len(buffer) = ICMP_HEADER_SIZE + Len(request.payload))
        => OnesComplementSum(buffer) = 65535

\* an encode call: it returns or panics
Encodes == codec_pc = "new" /\ codec_pc' \in {"encoded", "panicked"}

\* C30: encode fails if and only if the buffer is shorter than 8 +
\* len(payload) bytes; on every buffer at least that long it completes with
\* the type and code at offsets 0 and 1, the identifier big-endian at 4-5,
\* the sequence number big-endian at 6-7 and the payload from offset 8.
C30_FailsIffTooSmall ==
    [][Encodes =>
         /\ codec_pc' = "panicked" <=>
                Len(buffer) < ICMP_HEADER_SIZE + Len(request.payload)
         /\ codec_pc' = "encoded" =>
                /\ Len(buffer') = Len(buffer)
                /\ buffer'[1] = proto.ECHO_REQUEST_TYPE
                /\ buffer'[2] = proto.ECHO_REQUEST_CODE
                /\ buffer'[5] * 256 + buffer'[6] = request.ident
                /\ buffer'[7] * 256 + buffer'[8] = request.seq_cnt
                /\ SubSeq(buffer', ICMP_HEADER_SIZE + 1,
                          ICMP_HEADER_SIZE + Len(request.payload))
                       = request.payload]_vars

\* a request with an odd-length payload was encoded into a buffer one byte
\* longer than header plus payload
C30_Witness ==
    /\ codec_pc = "encoded"
    /\ request = EchoRequest(43981, 256, <<90>>)
    /\ Len(buffer) = ICMP_HEADER_SIZE + 2
    /\ buffer[9] = 90
    /\ buffer[10] = 255

(***************************************************************************)
(* Properties of IpV4Packet::decode on version-4 datagrams                 *)
(***************************************************************************)
\* IpV4Packet::decode has returned for a buffer of at least 20 bytes whose
\* version nibble is 4
StrippedV4 ==
    /\ codec_pc = "stripped"
    /\ Len(buffer) >= MINIMUM_PACKET_SIZE
    /\ buffer[1] \div 16 = 4

\* C31: for a buffer of at least 20 bytes with version nibble 4, decode
\* returns "Invalid Header Size" if and only if 4 * (low nibble of byte 0)
\* exceeds the length; otherwise "Unknown Protocol" if and only if byte 9 is
\* not 1; otherwise Ok with protocol Icmp and the bytes from offset
\* 4 * (low nibble) to the end as payload.
C31_HeaderSizeThenProtocol ==
    StrippedV4 =>
        LET header_size == 4 * (buffer[1] % 16)
        IN /\ packet = Err("Invalid Header Size") <=>
                  header_size > Len(buffer)
           /\ header_size <= Len(buffer) =>
                  /\ packet = Err("Unknown Protocol") <=> buffer[10] # 1
                  /\ buffer[10] = 1 =>
                        packet = IpV4Packet([kind |-> "Icmp"],
                                            SubSeq(buffer, header_size + 1,
                                                   Len(buffer)))

\* a 28-byte ICMP datagram with a 24-byte header has been stripped to its
\* last four bytes
C31_Witness ==
    /\ codec_pc = "stripped"
    /\ Len(buffer) = 28
    /\ buffer[1] = 70
    /\ buffer[10] = 1
    /\ packet.kind = "Ok"
    /\ Len(packet.data) = 4

\* C36 (as claimed): whenever decode succeeds the payload starts at offset
\* 20 or later, so none of the 20 bytes of the fixed header is in it.
C36_PayloadBehindFixedHeader ==
    (codec_pc = "stripped" /\ packet.kind = "Ok") =>
        \E offset \in MINIMUM_PACKET_SIZE..Len(buffer) :
            packet.data = SubSeq(buffer, offset + 1, Len(buffer))

(***************************************************************************)
(* Properties of the TCP worker's pacing                                   *)
(***************************************************************************)
\* C32 (as claimed): every attempt of the TCP worker, whatever its outcome,
\* is followed by the sleep of the interval before the next attempt starts.
C32_SleepAfterEveryAttempt ==
    [][(strategy = "tcp" /\ attempts' = attempts + 1) =>
          loop_pc' = "sleep"]_vars

(***************************************************************************)
(* Properties of the raw ICMP worker: capability and failing syscalls      *)
(***************************************************************************)
\* C33 (as claimed): CAP_NET_RAW is effective only around the creation of
\* the raw socket: in no state of the probe loop (loop test, select wait,
\* send phase, receive phase) is it raised, and the worker never exits with
\* it raised.
C33_CapabilityOnlyAroundSocket ==
    raw_pc \in {"loop", "select", "send", "recv", "exited"} => ~cap_effective

(***************************************************************************)
(* Properties of the ring buffer for every capacity                        *)
(***************************************************************************)
\* C37 (as claimed): for a buffer of any capacity cap >= 0, in every state
\* reached by pushes no push has panicked, len() <= cap, head <= buf.len()
\* and the backing vector holds at most 2 * cap elements.
C37_PushNeverPanics ==
    ring_pc # "idle" =>
        /\ ring_pc # "panicked"
        /\ len(ringbuffer) <= ring_cap
        /\ ring_head <= Len(ring_buf)
        /\ Len(ring_buf) <= 2 * ring_cap

(***************************************************************************)
(* Properties of the raw ICMP worker: Pongs per probe                      *)
(***************************************************************************)
\* the Pongs a step puts on the results channel
NewPongs ==
    IF Len(raw_chan') > Len(raw_chan)
    THEN {raw_chan'[i] : i \in (Len(raw_chan) + 1)..Len(raw_chan')}
    ELSE {}

\* C35: each probe produces at most one Pong.  A step puts at most one Pong
\* on the channel, and only for a token it takes out of the in-flight table
\* in that step; a token enters the table only with the sending of its own
\* probe; so a repeated reply and a reply for an evicted token find no entry
\* and produce nothing.  No two Pongs on the channel name the same probe and
\* the Pongs produced, taken or waiting, never outnumber the probes sent.
C35_AtMostOnePongPerProbe ==
    /\ [](/\ \A i, j \in 1..Len(raw_chan) :
                 raw_chan[i].tok = raw_chan[j].tok => i = j
           /\ Len(raw_chan) + nrecv <= nsent)
    /\ [][/\ Cardinality(NewPongs) <= 1
           /\ \A pong \in NewPongs :
                 /\ pong.tok \in DOMAIN in_flight_table
                 /\ pong.tok \notin DOMAIN in_flight_table'
                 /\ pong.sent_at = in_flight_table[pong.tok]
           /\ \A tok \in DOMAIN in_flight_table' \ DOMAIN in_flight_table :
                 /\ nsent' = nsent + 1
                 /\ tok = TokenOf(nsent')
                 /\ \A n \in 1..nsent : TokenOf(n) # tok]_vars

\* the first probe was answered and evictions have since emptied a full
\* table of it and of later probes; every receive phase in between, whatever
\* it read, left one Pong for probe 1 on the channel
C35_Witness ==
    /\ raw_pc = "loop"
    /\ nsent = 12
    /\ nrecv = 0
    /\ Len(raw_chan) = 1
    /\ raw_chan[1].tok = TokenOf(1)
    /\ Cardinality(DOMAIN in_flight_table) = IN_FLIGHT_TO_RETAIN
    /\ TokenOf(2) \notin DOMAIN in_flight_table

(***************************************************************************)
(* Properties of the raw ICMP worker: failing socket calls                 *)
(***************************************************************************)
\* C34: a failing send_to and a failing or would-block read never end the
\* loop and put no result on the channel: the send phase, whatever send_to
\* returned, leaves the channel as it was and goes on to the receive phase;
\* a receive phase whose read failed or would block leaves the table and the
\* channel as they were and goes back to the loop test; and while the run
\* flag is true the loop test goes on to the next cycle.
C34_FailedSyscallSkipsCycle ==
    [][/\ (raw_pc = "send" /\ raw_pc' # "send") =>
              /\ raw_pc' = "recv"
              /\ raw_chan' = raw_chan
              /\ run' = run
       /\ (raw_pc = "recv" /\ raw_pc' # "recv"
             /\ read_result' \in {"would_block", "err"}) =>
              /\ raw_pc' = "loop"
              /\ UNCHANGED <<in_flight_table, raw_chan, run>>
       /\ (raw_pc = "loop" /\ raw_pc' # "loop" /\ run) =>
              raw_pc' \in {"select", "send"}]_vars

\* the worker is back at its loop test with the run flag true after a cycle
\* in which the second probe's send_to failed and the read would block;
\* nothing is on the channel
C34_Witness ==
    /\ raw_pc = "loop"
    /\ run
    /\ nsent = 2
    /\ send_result = "err"
    /\ read_result = "would_block"
    /\ raw_chan = <<>>
    /\ Cardinality(DOMAIN in_flight_table) = 2

\* the event main's loop takes off the channel in this step
Handles(kinds) ==
    /\ main_pc = "loop"
    /\ rx_events # <<>>
    /\ rx_events' = Tail(rx_events)
    /\ Head(rx_events).kind = "Update"
    /\ Head(rx_events).update.kind \in kinds

\* C38: handling an Unknown update changes neither any host's plot data nor
\* the histogram nor anything else the application holds; handling a Result
\* (a Pong) or a Timeout for host i leaves every other host's plot data as it
\* was, and host i's plot data afterwards ends with the one new sample (NaN
\* for a Timeout, the round-trip time otherwise), everything in front of it
\* being samples that were there before, in their order.
C38_UpdateTouchesOneHost ==
    [][/\ Handles({"Unknown"}) =>
              UNCHANGED <<app_data, samples, enabled, killed, main_pc>>
       /\ Handles({"Result", "Timeout"}) =>
              LET event == Head(rx_events)
                  before == app_data[event.host]
                  after == app_data'[event.host]
              IN /\ \A h \in Hosts \ {event.host} :
                       app_data'[h] = app_data[h]
                 /\ after # <<>>
                 /\ after[Len(after)].value =
                       IF event.update.kind = "Timeout"
                       THEN NaN
                       ELSE Micros(event.update.micros)
                 /\ \E k \in 1..(Len(before) + 1) :
                       SubSeq(after, 1, Len(after) - 1) =
                          SubSeq(before, k, Len(before))]_vars

\* main is in its loop with nothing left to read; two results were delivered
\* for the first host, of which the Timeout put one NaN sample in that
\* host's plot data and the Unknown put nothing anywhere; the second host's
\* plot data is empty
C38_Witness ==
    /\ ~cmd_mode
    /\ main_pc = "loop"
    /\ rx_events = <<>>
    /\ ndelivered = 2
    /\ Len(app_data[1]) = 1
    /\ app_data[1][1].value = NaN
    /\ \A h \in Hosts \ {1} : app_data[h] = <<>>
    /\ Len(samples) = 1

\* C39: once the kill flag is set, main's join of every thread it started
\* completes and the program exits, whether or not a pinger delivers a
\* further result.
C39_JoinCompletes == killed ~> (main_pc = "exited")

====
